---- MODULE Spec2Model ----
(***************************************************************************)
(* A model of e9tool (src/e9tool/e9tool.cpp), the front-end driver of the  *)
(* e9patch static binary rewriter: the match/action rule evaluator, the    *)
(* instruction pipeline (one or two passes over the disassembled code),    *)
(* and the emission of the directive stream that is sent to the backend.   *)
(***************************************************************************)
EXTENDS Integers, Sequences, FiniteSets, TLC

VARIABLES
    pc,              \* position of main(): which step runs next
    option_actions,  \* std::vector<Action *> option_actions
    option_notify,   \* static bool option_notify
    option_sync,     \* ssize_t option_sync
    plugins,         \* static std::map<const char *, Plugin *> plugins
    elf,             \* the primary ELF (text_addr, text_offset, free_addr)
    code,            \* the code section, as the disassembler decodes it
    ip,              \* the disassembler's cursor (index of the next item)
    sync,            \* unsigned sync (countdown after a desync)
    failed,          \* bool failed
    idx,             \* int idx (the last value match() returned, or -1)
    locs,            \* std::vector<Location> locs
    i,               \* loop index of the trampoline / pass-two / emission loop
    files,           \* std::map<const char *, ELF *> files
    have_call,       \* std::set<const char *> have_call
    have,            \* have_print, have_passthru, have_trap
    file_addr,       \* intptr_t file_addr
    out,             \* the directive stream written to backend.out
    calls,           \* the plugin callbacks made so far, with their arguments
    m_pc,            \* evaluator harness: position
    m_action,        \* evaluator harness: the rule given to matchAction
    m_I,             \* evaluator harness: the instruction
    m_offset,        \* evaluator harness: the offset argument
    m_rnd,           \* evaluator harness: the value rand() returns
    m_ret,           \* evaluator harness: the value matchAction returned
    p_pc,            \* parser harness: position
    p_n,             \* parser harness: number of options parsed so far
    p_str,           \* parser harness: the text of the last option
    p_ret,           \* parser harness: what the last call returned
    p_loads,         \* parser harness: the libraries given to dlopen
    p_text,          \* parser harness: the -A option given to parseAction
    p_act,           \* parser harness: what parseAction did with it
    option_match     \* MatchEntries option_match: the pending -M entries

vars == <<pc, option_actions, option_notify, option_sync, plugins, elf, code,
          ip, sync, failed, idx, locs, i, files, have_call, have, file_addr,
          out, calls, m_pc, m_action, m_I, m_offset, m_rnd, m_ret, p_pc, p_n,
          p_str, p_ret, p_loads, p_text, p_act, option_match>>

pipeVars == <<pc, option_actions, option_notify, option_sync, elf, code,
              ip, sync, failed, idx, locs, i, files, have_call, have,
              file_addr, out, calls>>

matchVars == <<m_pc, m_action, m_I, m_offset, m_rnd, m_ret>>

parseVars ==
    <<p_pc, p_n, p_str, p_ret, p_loads, p_text, p_act, option_match>>

-----------------------------------------------------------------------------
(* Program constants.                                                      *)

PAGE_SIZE == 4096

MAX_ACTIONS == 1024

INT8_MAX == 127

\* (unsigned)-1.  The value 4294967295 is beyond the integers of the model
\* checker; this one, like it, exceeds the length of every code section.
UINT_MAX == 2147483647

NULL == <<>>

Abs(x) == IF x < 0 THEN 0 - x ELSE x

SetMax(S) == CHOOSE x \in S : \A y \in S : y <= x

SetMin(S) == CHOOSE x \in S : \A y \in S : x <= y

-----------------------------------------------------------------------------
(* Bounds of the model.                                                    *)

\* The longest run of 15-byte instructions in a code section.
MaxFill == 10

\* The largest value given to --sync.
MaxSync == 1

\* The longest rule (number of -M entries) given to the evaluator harness.
MaxEntries == 2

-----------------------------------------------------------------------------
(* Instructions, as the disassembler describes them (cs_insn without the   *)
(* address, which depends on where the instruction lies).                  *)

Op(type, access, size) == [type |-> type, access |-> access, size |-> size]

Insn(mnemonic, op_str, size, groups, operands) ==
    [mnemonic |-> mnemonic, op_str |-> op_str, size |-> size,
     groups |-> groups, operands |-> operands]

I_ret == Insn("retq", "", 1, {"CS_GRP_RET"}, <<>>)

I_call == Insn("callq", "0x401000", 5, {"CS_GRP_CALL"},
               <<Op("X86_OP_IMM", {}, 8)>>)

I_jmp == Insn("jmp", "0x401000", 2, {"CS_GRP_JUMP"},
              <<Op("X86_OP_IMM", {}, 8)>>)

I_mov9 == Insn("movq", "$1, 0x10(%rax,%rbx,8)", 9, {},
               <<Op("X86_OP_IMM", {}, 8),
                 Op("X86_OP_MEM", {"CS_AC_WRITE"}, 8)>>)

I_movabs == Insn("movabsq", "$0x1122334455667788, %rax", 10, {},
                 <<Op("X86_OP_IMM", {}, 8),
                   Op("X86_OP_REG", {"CS_AC_WRITE"}, 8)>>)

I_add15 == Insn("addl", "$0x11223344, %fs:0x100(%eax,%ebx,8)", 15, {},
                <<Op("X86_OP_IMM", {}, 4),
                  Op("X86_OP_MEM", {"CS_AC_READ", "CS_AC_WRITE"}, 4)>>)

I_xchg == Insn("xchgq", "%rax, %rbx", 2, {},
               <<Op("X86_OP_REG", {"CS_AC_READ", "CS_AC_WRITE"}, 8),
                 Op("X86_OP_REG", {"CS_AC_READ", "CS_AC_WRITE"}, 8)>>)

\* An instruction with an operand for which the disassembler reports no
\* access at all: the memory operand of lea is neither read nor written.
I_lea == Insn("leaq", "0x10(%rax), %rbx", 4, {},
              <<Op("X86_OP_MEM", {}, 8),
                Op("X86_OP_REG", {"CS_AC_WRITE"}, 8)>>)

\* What the disassembler yields in skip-data mode for bytes it cannot decode.
I_data == Insn(".byte", "0x06", 1, {}, <<>>)

-----------------------------------------------------------------------------
(* Match entries and actions.                                              *)

\* A regular expression is modelled by the set of subject strings that
\* std::regex_match accepts in full.
MatchEntry(match, idx_, field, cmp, values, regex, plugin, basename) ==
    [match |-> match, idx |-> idx_, field |-> field, cmp |-> cmp,
     values |-> values, regex |-> regex, plugin |-> plugin,
     basename |-> basename]

IntegerKinds ==
    {"MATCH_TRUE", "MATCH_FALSE", "MATCH_ADDRESS", "MATCH_CALL", "MATCH_JUMP",
     "MATCH_OFFSET", "MATCH_OP", "MATCH_SRC", "MATCH_DST", "MATCH_IMM",
     "MATCH_REG", "MATCH_MEM", "MATCH_PLUGIN", "MATCH_RANDOM", "MATCH_RETURN",
     "MATCH_SIZE"}

OperandKinds ==
    {"MATCH_OP", "MATCH_SRC", "MATCH_DST", "MATCH_IMM", "MATCH_REG",
     "MATCH_MEM"}

\* The subject string of a string attribute.
makeMatchString(match, I) ==
    CASE match = "MATCH_ASSEMBLY" ->
            IF I.op_str = "" THEN I.mnemonic
            ELSE I.mnemonic \o " " \o I.op_str
      [] match = "MATCH_MNEMONIC" -> I.mnemonic
      [] OTHER -> ""

\* The filter of getOperand() and getNumOperands(): type X86_OP_INVALID passes
\* every type; an immediate counts as readable.
OperandPasses(op, type, access) ==
    /\ (IF type = "X86_OP_INVALID" THEN TRUE ELSE op.type = type)
    /\ \/ (op.access \cap access) # {}
       \/ (op.type = "X86_OP_IMM" /\ "CS_AC_READ" \in access)

\* Position (1-based) of the idx-th operand passing the filter, scanning from
\* position k; 0 stands for nullptr.
RECURSIVE getOperandFrom(_, _, _, _, _)
getOperandFrom(I, k, idx_, type, access) ==
    IF k > Len(I.operands) THEN 0
    ELSE IF OperandPasses(I.operands[k], type, access)
         THEN IF idx_ = 0 THEN k
              ELSE getOperandFrom(I, k + 1, idx_ - 1, type, access)
         ELSE getOperandFrom(I, k + 1, idx_, type, access)

getOperand(I, idx_, type, access) == getOperandFrom(I, 1, idx_, type, access)

RECURSIVE getNumOperandsFrom(_, _, _, _)
getNumOperandsFrom(I, k, type, access) ==
    IF k > Len(I.operands) THEN 0
    ELSE (IF OperandPasses(I.operands[k], type, access) THEN 1 ELSE 0)
         + getNumOperandsFrom(I, k + 1, type, access)

\* The count as it would be without the filter.
getNumOperandsUnfiltered(I, type, access) == Len(I.operands)

getNumOperands(I, type, access) == getNumOperandsFrom(I, 1, type, access)

Defined(x) == [x |-> x, defined |-> TRUE]

\* return (*defined = false);
Undefined == [x |-> 0, defined |-> FALSE]

BoolInt(b) == IF b THEN 1 ELSE 0

MatchType(match) ==
    CASE match = "MATCH_IMM" -> "X86_OP_IMM"
      [] match = "MATCH_REG" -> "X86_OP_REG"
      [] match = "MATCH_MEM" -> "X86_OP_MEM"
      [] OTHER -> "X86_OP_INVALID"

MatchAccess(match) ==
    CASE match = "MATCH_SRC" -> {"CS_AC_READ"}
      [] match = "MATCH_DST" -> {"CS_AC_WRITE"}
      [] OTHER -> {"CS_AC_READ", "CS_AC_WRITE"}

OperandValue(op, field) ==
    CASE field = "FIELD_SIZE" -> Defined(op.size)
      [] field = "FIELD_TYPE" ->
            (CASE op.type = "X86_OP_IMM" -> Defined(1)
               [] op.type = "X86_OP_REG" -> Defined(2)
               [] op.type = "X86_OP_MEM" -> Defined(3)
               [] OTHER -> Undefined)
      [] field = "FIELD_READ" ->
            Defined(BoolInt(op.type = "X86_OP_IMM"
                            \/ "CS_AC_READ" \in op.access))
      [] field = "FIELD_WRITE" -> Defined(BoolInt("CS_AC_WRITE" \in op.access))
      [] OTHER -> Undefined

\* The value of an integer attribute; result is the plugin's last match
\* result and rnd the value rand() returns for this evaluation.
makeMatchValue(match, idx_, field, I, offset, result, rnd) ==
    CASE match = "MATCH_TRUE" -> Defined(1)
      [] match = "MATCH_FALSE" -> Defined(0)
      [] match = "MATCH_ADDRESS" -> Defined(I.address)
      [] match = "MATCH_CALL" -> Defined(BoolInt("CS_GRP_CALL" \in I.groups))
      [] match = "MATCH_JUMP" -> Defined(BoolInt("CS_GRP_JUMP" \in I.groups))
      [] match \in OperandKinds ->
            IF idx_ < 0
            THEN IF field = "FIELD_SIZE"
                 THEN Defined(getNumOperands(I, MatchType(match),
                                             MatchAccess(match)))
                 ELSE Undefined
            ELSE LET k == getOperand(I, idx_, MatchType(match),
                                     MatchAccess(match))
                 IN  IF k = 0 THEN Undefined
                     ELSE OperandValue(I.operands[k], field)
      [] match = "MATCH_OFFSET" -> Defined(offset)
      [] match = "MATCH_PLUGIN" -> Defined(result)
      [] match = "MATCH_RANDOM" -> Defined(rnd)
      [] match = "MATCH_RETURN" -> Defined(BoolInt("CS_GRP_RET" \in I.groups))
      [] match = "MATCH_SIZE" -> Defined(I.size)
      [] OTHER -> Undefined

\* The comparison as it would be if `!=' meant "in none of the values" for a
\* set of any size.
CompareNeqEvery(cmp, x, values) ==
    CASE cmp = "MATCH_CMP_EQ_ZERO" -> x = 0
      [] cmp = "MATCH_CMP_NEQ_ZERO" -> x # 0
      [] cmp = "MATCH_CMP_EQ" -> x \in values
      [] cmp = "MATCH_CMP_NEQ" -> x \notin values
      [] cmp = "MATCH_CMP_LT" -> x < SetMax(values)
      [] cmp = "MATCH_CMP_LEQ" -> x <= SetMax(values)
      [] cmp = "MATCH_CMP_GT" -> x > SetMin(values)
      [] cmp = "MATCH_CMP_GEQ" -> x >= SetMin(values)
      [] OTHER -> FALSE

\* The comparison of an integer entry (the inner switch of matchAction).
Compare(cmp, x, values) ==
    CASE cmp = "MATCH_CMP_EQ_ZERO" -> x = 0
      [] cmp = "MATCH_CMP_NEQ_ZERO" -> x # 0
      [] cmp = "MATCH_CMP_EQ" -> x \in values
      [] cmp = "MATCH_CMP_NEQ" ->
            IF Cardinality(values) = 1 THEN x \notin values ELSE TRUE
      [] cmp = "MATCH_CMP_LT" -> x < SetMax(values)
      [] cmp = "MATCH_CMP_LEQ" -> x <= SetMax(values)
      [] cmp = "MATCH_CMP_GT" -> x > SetMin(values)
      [] cmp = "MATCH_CMP_GEQ" -> x >= SetMin(values)
      [] OTHER -> FALSE

\* One iteration of the loop of matchAction: the value of `pass' after the
\* switch, given its value before.  With an empty value-set the inner `break'
\* leaves the switch without assigning `pass'.
EntryPass(entry, pass, I, offset, table, rnd) ==
    IF entry.match \in {"MATCH_ASSEMBLY", "MATCH_MNEMONIC"}
    THEN LET m == makeMatchString(entry.match, I) \in entry.regex
         IN  IF entry.cmp = "MATCH_CMP_NEQ" THEN ~m ELSE m
    ELSE IF entry.match \in IntegerKinds
    THEN IF /\ entry.cmp \notin {"MATCH_CMP_EQ_ZERO", "MATCH_CMP_NEQ_ZERO"}
            /\ entry.values = {}
         THEN pass
         ELSE LET v == makeMatchValue(entry.match, entry.idx, entry.field,
                           I, offset,
                           IF entry.match = "MATCH_PLUGIN"
                           THEN table[entry.plugin].result ELSE 0, rnd)
              IN  Compare(entry.cmp, v.x, entry.values) /\ v.defined
    ELSE FALSE

\* The loop of matchAction from entry k on: stops at the first failing entry.
RECURSIVE matchEntries(_, _, _, _, _, _, _)
matchEntries(entries, k, pass, I, offset, table, rnd) ==
    IF k > Len(entries) THEN pass
    ELSE LET p == EntryPass(entries[k], pass, I, offset, table, rnd)
         IN  IF ~p THEN FALSE
             ELSE matchEntries(entries, k + 1, p, I, offset, table, rnd)

matchAction(action, I, offset, table, rnd) ==
    matchEntries(action.entries, 1, FALSE, I, offset, table, rnd)

\* The loop of match() from action k on (1-based); the index returned is
\* 0-based as in the source, -1 when no action matches.
RECURSIVE matchFrom(_, _, _, _, _, _)
matchFrom(actions, k, I, offset, table, rnd) ==
    IF k > Len(actions) THEN -1
    ELSE IF matchAction(actions[k], I, offset, table, rnd) THEN k - 1
         ELSE matchFrom(actions, k + 1, I, offset, table, rnd)

\* match() as it would be if a later matching action replaced an earlier one.
matchLastWins(actions, I, offset, table, rnd) ==
    LET M == {k \in 1 .. Len(actions) :
                 matchAction(actions[k], I, offset, table, rnd)}
    IN  IF M = {} THEN -1 ELSE SetMax(M) - 1

match(actions, I, offset, table, rnd) ==
    matchFrom(actions, 1, I, offset, table, rnd)

-----------------------------------------------------------------------------
(* Plugins.  A plugin library is external code: the model fixes which      *)
(* entry points each library exports and what its callbacks return.        *)

\* The library paths, in the order std::map iterates them (CStrCmp).
PluginPaths == <<"/i.so", "/m.so", "/p.so", "/q.so", "/r.so">>

\* dlsym(handle, "e9_plugin_<hook>_v1") != nullptr
Exports(path) ==
    CASE path = "/p.so" -> {"init", "match", "patch", "fini"}
      [] path = "/q.so" -> {"init", "instr", "match", "fini"}
      [] path = "/r.so" -> {"instr", "match", "patch"}
      [] path = "/i.so" -> {"init"}
      [] path = "/m.so" -> {"match"}
      [] OTHER -> {}

\* The context a plugin's init returns (not null, its own).
PluginContext(path) == <<path>>

\* The value a plugin's match returns for an instruction.
PluginMatchResult(path, I) ==
    IF I.groups \cap {"CS_GRP_CALL", "CS_GRP_RET"} # {} THEN 1 ELSE 0

Call(hook, path, context, offset) ==
    [hook |-> hook, plugin |-> path, context |-> context, offset |-> offset]

\* openPlugin() as it would be if it never turned option_notify on.
openPluginNoNotify(st, pathname) ==
    IF pathname \in DOMAIN st.plugins THEN st
    ELSE LET plugin == [filename |-> pathname,
                        context |-> NULL,
                        result |-> 0,
                        initFunc |-> "init" \in Exports(pathname),
                        instrFunc |-> "instr" \in Exports(pathname),
                        matchFunc |-> "match" \in Exports(pathname),
                        patchFunc |-> "patch" \in Exports(pathname),
                        finiFunc |-> "fini" \in Exports(pathname)]
         IN  IF /\ ~plugin.initFunc /\ ~plugin.instrFunc
                /\ ~plugin.patchFunc /\ ~plugin.finiFunc
             THEN [st EXCEPT !.error = TRUE]
             ELSE [st EXCEPT
                     !.plugins = [q \in DOMAIN st.plugins \cup {pathname} |->
                                    IF q = pathname THEN plugin
                                    ELSE st.plugins[q]]]

\* openPlugin() as it would be if the last library opened decided
\* option_notify on its own.
openPluginLastDecides(st, pathname) ==
    IF pathname \in DOMAIN st.plugins THEN st
    ELSE LET plugin == [filename |-> pathname,
                        context |-> NULL,
                        result |-> 0,
                        initFunc |-> "init" \in Exports(pathname),
                        instrFunc |-> "instr" \in Exports(pathname),
                        matchFunc |-> "match" \in Exports(pathname),
                        patchFunc |-> "patch" \in Exports(pathname),
                        finiFunc |-> "fini" \in Exports(pathname)]
         IN  IF /\ ~plugin.initFunc /\ ~plugin.instrFunc
                /\ ~plugin.patchFunc /\ ~plugin.finiFunc
             THEN [st EXCEPT !.error = TRUE]
             ELSE [st EXCEPT
                     !.plugins = [q \in DOMAIN st.plugins \cup {pathname} |->
                                    IF q = pathname THEN plugin
                                    ELSE st.plugins[q]],
                     !.option_notify = plugin.instrFunc]

\* openPlugin: st is [plugins, option_notify, error].
openPlugin(st, pathname) ==
    IF pathname \in DOMAIN st.plugins THEN st
    ELSE LET plugin == [filename |-> pathname,
                        context |-> NULL,
                        result |-> 0,
                        initFunc |-> "init" \in Exports(pathname),
                        instrFunc |-> "instr" \in Exports(pathname),
                        matchFunc |-> "match" \in Exports(pathname),
                        patchFunc |-> "patch" \in Exports(pathname),
                        finiFunc |-> "fini" \in Exports(pathname)]
         IN  IF /\ ~plugin.initFunc /\ ~plugin.instrFunc
                /\ ~plugin.patchFunc /\ ~plugin.finiFunc
             THEN [st EXCEPT !.error = TRUE]
             ELSE [st EXCEPT
                     !.plugins = [q \in DOMAIN st.plugins \cup {pathname} |->
                                    IF q = pathname THEN plugin
                                    ELSE st.plugins[q]],
                     !.option_notify = st.option_notify \/ plugin.instrFunc]

\* The loaded plugins in iteration order.
RECURSIVE PluginOrderFrom(_, _)
PluginOrderFrom(table, k) ==
    IF k > Len(PluginPaths) THEN <<>>
    ELSE (IF PluginPaths[k] \in DOMAIN table THEN <<PluginPaths[k]>> ELSE <<>>)
         \o PluginOrderFrom(table, k + 1)

PluginOrder(table) == PluginOrderFrom(table, 1)

\* The callbacks one pass over the plugin table makes for a hook: one per
\* plugin exporting it, each given that plugin's context.
RECURSIVE HookCalls(_, _, _, _, _)
HookCalls(table, order, k, hook, offset) ==
    IF k > Len(order) THEN <<>>
    ELSE LET plugin == table[order[k]]
             has == CASE hook = "init" -> plugin.initFunc
                      [] hook = "instr" -> plugin.instrFunc
                      [] hook = "match" -> plugin.matchFunc
                      [] hook = "fini" -> plugin.finiFunc
                      [] OTHER -> FALSE
         IN  (IF has
              THEN <<Call(hook, order[k],
                          IF hook = "init" THEN NULL ELSE plugin.context,
                          offset)>>
              ELSE <<>>)
             \o HookCalls(table, order, k + 1, hook, offset)

notifyPlugins(table, offset) ==
    HookCalls(table, PluginOrder(table), 1, "instr", offset)

\* matchPlugins() as it would be if it left the results as they are.
matchPluginsStale(table, I) == table

\* matchPlugins: the table with every result refreshed by the plugin's match.
matchPlugins(table, I) ==
    [q \in DOMAIN table |->
        IF table[q].matchFunc
        THEN [table[q] EXCEPT !.result = PluginMatchResult(q, I)]
        ELSE table[q]]

matchPluginsCalls(table, offset) ==
    HookCalls(table, PluginOrder(table), 1, "match", offset)

initPlugins(table) ==
    [q \in DOMAIN table |->
        IF table[q].initFunc
        THEN [table[q] EXCEPT !.context = PluginContext(q)]
        ELSE table[q]]

initPluginsCalls(table) ==
    HookCalls(table, PluginOrder(table), 1, "init", 0)

\* finiPlugins() as it would be if it called no plugin.
finiPluginsSkipped(table) == <<>>

finiPluginsCalls(table) ==
    HookCalls(table, PluginOrder(table), 1, "fini", 0)

-----------------------------------------------------------------------------
(* Actions, as parseAction builds them.                                    *)

Argument(kind, ptr, duplicate, value, basename) ==
    [kind |-> kind, ptr |-> ptr, duplicate |-> duplicate, value |-> value,
     basename |-> basename]

\* The name parseAction gives an action: a call action is named after its
\* frame policy, call position, symbol and binary.
ActionName(kind, clean, call, symbol, filename) ==
    CASE kind = "ACTION_PRINT" -> "print"
      [] kind = "ACTION_PASSTHRU" -> "passthru"
      [] kind = "ACTION_TRAP" -> "trap"
      [] kind = "ACTION_CALL" ->
            "call_" \o (IF clean THEN "clean_" ELSE "naked_")
            \o (CASE call = "CALL_BEFORE" -> "before_"
                  [] call = "CALL_AFTER" -> "after_"
                  [] call = "CALL_REPLACE" -> "replace_"
                  [] call = "CALL_CONDITIONAL" -> "conditional_")
            \o symbol \o "_" \o filename
      [] kind = "ACTION_PLUGIN" -> "plugin_" \o filename
      [] OTHER -> ""

\* new Action(str, entries, kind, name, filename, symbol, plugin, args,
\*            clean, call): elf and context start as nullptr.
Action(entries, kind, filename, symbol, plugin, args, clean, call) ==
    [entries |-> entries, kind |-> kind,
     name |-> ActionName(kind, clean, call, symbol, filename),
     filename |-> filename, symbol |-> symbol, elf |-> NULL,
     plugin |-> plugin, context |-> NULL, args |-> args, clean |-> clean,
     call |-> call]

Builtin(entries, kind) ==
    Action(entries, kind, "", "", "", <<>>, FALSE, "CALL_BEFORE")

PluginAction(entries, path) ==
    Action(entries, "ACTION_PLUGIN", path, "", path, <<>>, FALSE,
           "CALL_BEFORE")

CallAction(entries, symbol, filename, args, clean, call) ==
    Action(entries, "ACTION_CALL", filename, symbol, "", args, clean, call)

-----------------------------------------------------------------------------
(* The match entries and rule lists given on the command line.             *)

NonZero(kind) ==
    MatchEntry(kind, -1, "FIELD_NONE", "MATCH_CMP_NEQ_ZERO", {}, {}, "", "")

IntEntry(kind, cmp, values) ==
    MatchEntry(kind, -1, "FIELD_NONE", cmp, values, {}, "", "")

\* -M 'mnemonic=/mov.*/'
E_mov == MatchEntry("MATCH_MNEMONIC", -1, "FIELD_NONE", "MATCH_CMP_EQ", {},
                    {"movq", "movabsq"}, "", "")

\* -M 'plugin[NAME]'
E_plugin(path) ==
    MatchEntry("MATCH_PLUGIN", -1, "FIELD_NONE", "MATCH_CMP_NEQ_ZERO", {}, {},
               path, "")

\* -M 'addr=empty[0]' with a CSV file that has no rows.
E_csvEmpty ==
    MatchEntry("MATCH_ADDRESS", -1, "FIELD_NONE", "MATCH_CMP_EQ", {}, {}, "",
               "empty")

A_addr == Argument("ARGUMENT_ADDR", FALSE, FALSE, 0, "")

A_offset == Argument("ARGUMENT_OFFSET", FALSE, FALSE, 0, "")

\* The rule lists (-M ... -A ... groups, in command-line order).
RuleLists ==
    { \* -M return -A trap
      <<Builtin(<<NonZero("MATCH_RETURN")>>, "ACTION_TRAP")>>,
      \* -M mnemonic=/mov.*/ -A print -M return -A trap
      <<Builtin(<<E_mov>>, "ACTION_PRINT"),
        Builtin(<<NonZero("MATCH_RETURN")>>, "ACTION_TRAP")>>,
      \* -M 'size>=1' -A passthru -M return -A trap
      <<Builtin(<<IntEntry("MATCH_SIZE", "MATCH_CMP_GEQ", {1})>>,
                "ACTION_PASSTHRU"),
        Builtin(<<NonZero("MATCH_RETURN")>>, "ACTION_TRAP")>>,
      \* -M offset=0 -A print -M call -A passthru
      <<Builtin(<<IntEntry("MATCH_OFFSET", "MATCH_CMP_EQ", {0})>>,
                "ACTION_PRINT"),
        Builtin(<<NonZero("MATCH_CALL")>>, "ACTION_PASSTHRU")>>,
      \* -M mnemonic=/mov.*/ -A 'call f(addr)@bin'
      \* -M return -A 'call f(offset)@bin'
      <<CallAction(<<E_mov>>, "f", "bin", <<A_addr>>, TRUE, "CALL_BEFORE"),
        CallAction(<<NonZero("MATCH_RETURN")>>, "f", "bin", <<A_offset>>,
                   TRUE, "CALL_BEFORE")>>,
      \* -M return -A 'call f(addr)@bin' -M call -A 'call[after] g(addr)@lib'
      \* -M mnemonic=/mov.*/ -A 'call f(addr)@bin'
      <<CallAction(<<NonZero("MATCH_RETURN")>>, "f", "bin", <<A_addr>>, TRUE,
                   "CALL_BEFORE"),
        CallAction(<<NonZero("MATCH_CALL")>>, "g", "lib", <<A_addr>>, TRUE,
                   "CALL_AFTER"),
        CallAction(<<E_mov>>, "f", "bin", <<A_addr>>, TRUE, "CALL_BEFORE")>>,
      \* -M 'plugin[p]' -A 'plugin[p]' -M mnemonic=/mov.*/ -A print
      <<PluginAction(<<E_plugin("/p.so")>>, "/p.so"),
        Builtin(<<E_mov>>, "ACTION_PRINT")>>,
      \* -M 'plugin[q]' -M call -A 'plugin[q]' -M offset=0 -A trap
      \* -M 'size<=9' -A print
      <<PluginAction(<<E_plugin("/q.so"), NonZero("MATCH_CALL")>>, "/q.so"),
        Builtin(<<IntEntry("MATCH_OFFSET", "MATCH_CMP_EQ", {0})>>,
                "ACTION_TRAP"),
        Builtin(<<IntEntry("MATCH_SIZE", "MATCH_CMP_LEQ", {9})>>,
                "ACTION_PRINT")>>,
      \* -M 'plugin[r]' -A 'plugin[r]' -M 'plugin[p]=0' -A 'plugin[p]'
      <<PluginAction(<<E_plugin("/r.so")>>, "/r.so"),
        PluginAction(<<MatchEntry("MATCH_PLUGIN", -1, "FIELD_NONE",
                                  "MATCH_CMP_EQ_ZERO", {}, {}, "/p.so", "")>>,
                     "/p.so")>>,
      \* -M call -A 'call[after] g(addr)@lib' -M return -A trap
      \* -M mnemonic=/mov.*/ -A 'call f(addr)@bin' -M offset=0 -A print
      \* -M 'size>=1' -A passthru
      <<CallAction(<<NonZero("MATCH_CALL")>>, "g", "lib", <<A_addr>>, TRUE,
                   "CALL_AFTER"),
        Builtin(<<NonZero("MATCH_RETURN")>>, "ACTION_TRAP"),
        CallAction(<<E_mov>>, "f", "bin", <<A_addr>>, TRUE, "CALL_BEFORE"),
        Builtin(<<IntEntry("MATCH_OFFSET", "MATCH_CMP_EQ", {0})>>,
                "ACTION_PRINT"),
        Builtin(<<IntEntry("MATCH_SIZE", "MATCH_CMP_GEQ", {1})>>,
                "ACTION_PASSTHRU")>> }

\* The plugins the rules name, in the order parsing opens them: for each
\* rule the plugins of its match entries, then the plugin of its action.
RECURSIVE EntryPlugins(_, _)
EntryPlugins(entries, k) ==
    IF k > Len(entries) THEN <<>>
    ELSE (IF entries[k].plugin # "" THEN <<entries[k].plugin>> ELSE <<>>)
         \o EntryPlugins(entries, k + 1)

RECURSIVE RulePlugins(_, _)
RulePlugins(actions, k) ==
    IF k > Len(actions) THEN <<>>
    ELSE EntryPlugins(actions[k].entries, 1)
         \o (IF actions[k].plugin # "" THEN <<actions[k].plugin>> ELSE <<>>)
         \o RulePlugins(actions, k + 1)

RECURSIVE OpenAll(_, _, _)
OpenAll(st, paths, k) ==
    IF k > Len(paths) THEN st
    ELSE OpenAll(openPlugin(st, paths[k]), paths, k + 1)

NoPlugins == [q \in {} |-> NULL]

ParsedOptions(actions) ==
    OpenAll([plugins |-> NoPlugins, option_notify |-> FALSE, error |-> FALSE],
            RulePlugins(actions, 1), 1)

-----------------------------------------------------------------------------
(* The input binary.                                                       *)

\* Load address and file offset of the code section, and the first free
\* address, of the primary ELF.
TextAddrs == {4198400}

TextOffsets == {4096}

FreeAddrs == {4210688}

\* What parseELF reports as free_addr for a call target.
TargetFreeAddr(filename) ==
    CASE filename = "bin" -> 12288
      [] filename = "lib" -> 4660
      [] OTHER -> PAGE_SIZE

RECURSIVE Fill(_)
Fill(k) == IF k = 0 THEN <<>> ELSE <<I_add15>> \o Fill(k - 1)

Heads == {I_mov9, I_movabs, I_ret, I_data}

Tails == {<<>>, <<I_ret>>, <<I_call>>, <<I_data, I_ret>>, <<I_ret, I_mov9>>}

\* The code sections: an instruction, a run of 15-byte instructions, a tail.
CodeSections ==
    { <<h>> \o Fill(k) \o t : h \in Heads, k \in 0 .. MaxFill, t \in Tails }

\* The items as cs_disasm_iter yields them one after the other from address.
RECURSIVE Disassemble(_, _, _)
Disassemble(items, k, address) ==
    IF k > Len(items) THEN <<>>
    ELSE <<[mnemonic |-> items[k].mnemonic, op_str |-> items[k].op_str,
            size |-> items[k].size, groups |-> items[k].groups,
            operands |-> items[k].operands, address |-> address]>>
         \o Disassemble(items, k + 1, address + items[k].size)

\* I->mnemonic[0] == '.'
IsData(I) == I.mnemonic \in {".byte"}

\* cs_disasm_iter at a known address: the index of the item there, 0 if none.
DecodeAt(address) ==
    IF \E k \in 1 .. Len(code) : code[k].address = address
    THEN CHOOSE k \in 1 .. Len(code) : code[k].address = address
    ELSE 0

-----------------------------------------------------------------------------
(* Locations and messages.                                                 *)

\* Location() as it would be with the emitted bit initialised from patch.
LocationEmittedInit(offset, size, patch, action) ==
    [offset |-> offset, size |-> size % (2 ^ 4), emitted |-> patch,
     patch |-> patch, action |-> action % (2 ^ 10)]

\* struct Location: offset:48, size:4, emitted:1, patch:1, action:10.  The
\* 48-bit offset is kept as it is: 2^48 is beyond the integers of the model
\* checker, and every offset of the model is far below it.
\* The Location as it would be with a size field of three bits.
LocationNarrowSize(offset, size, patch, action) ==
    [offset |-> offset, size |-> size % (2 ^ 3), emitted |-> FALSE,
     patch |-> patch, action |-> action % (2 ^ 10)]

Location(offset, size, patch, action) ==
    [offset |-> offset, size |-> size % (2 ^ 4), emitted |-> FALSE,
     patch |-> patch, action |-> action % (2 ^ 10)]

Msg(type, name, addr, offset, size, args) ==
    [type |-> type, name |-> name, addr |-> addr, offset |-> offset,
     size |-> size, args |-> args]

\* sendInstructionMessage() as it would be with `>=' for `>' in the reach
\* test.
sendInstructionMessageShortReach(o, loc, addr, text_addr, text_offset) ==
    IF Abs((text_addr + loc.offset) - addr) >= INT8_MAX + 2 + 15
    THEN [ret |-> FALSE, loc |-> loc, out |-> o]
    ELSE IF loc.emitted
    THEN [ret |-> TRUE, loc |-> loc, out |-> o]
    ELSE [ret |-> TRUE, loc |-> [loc EXCEPT !.emitted = TRUE],
          out |-> Append(o, Msg("instruction", "", text_addr + loc.offset,
                                text_offset + loc.offset, loc.size, <<>>))]

\* sendInstructionMessage() as it would be if the distance were signed.
sendInstructionMessageOneSided(o, loc, addr, text_addr, text_offset) ==
    IF (text_addr + loc.offset) - addr > INT8_MAX + 2 + 15
    THEN [ret |-> FALSE, loc |-> loc, out |-> o]
    ELSE IF loc.emitted
    THEN [ret |-> TRUE, loc |-> loc, out |-> o]
    ELSE [ret |-> TRUE, loc |-> [loc EXCEPT !.emitted = TRUE],
          out |-> Append(o, Msg("instruction", "", text_addr + loc.offset,
                                text_offset + loc.offset, loc.size, <<>>))]

\* sendInstructionMessage() as it would be without the test of loc.emitted.
sendInstructionMessageNoFlag(o, loc, addr, text_addr, text_offset) ==
    IF Abs((text_addr + loc.offset) - addr) > INT8_MAX + 2 + 15
    THEN [ret |-> FALSE, loc |-> loc, out |-> o]
    ELSE [ret |-> TRUE, loc |-> [loc EXCEPT !.emitted = TRUE],
          out |-> Append(o, Msg("instruction", "", text_addr + loc.offset,
                                text_offset + loc.offset, loc.size, <<>>))]

\* sendInstructionMessage(out, loc, addr, text_addr, text_offset): st is
\* [ret, loc, out].
sendInstructionMessage(o, loc, addr, text_addr, text_offset) ==
    IF Abs((text_addr + loc.offset) - addr) > INT8_MAX + 2 + 15
    THEN [ret |-> FALSE, loc |-> loc, out |-> o]
    ELSE IF loc.emitted
    THEN [ret |-> TRUE, loc |-> loc, out |-> o]
    ELSE [ret |-> TRUE, loc |-> [loc EXCEPT !.emitted = TRUE],
          out |-> Append(o, Msg("instruction", "", text_addr + loc.offset,
                                text_offset + loc.offset, loc.size, <<>>))]

\* for (ssize_t j = i; !done && j >= 0; j--) done = !sendInstructionMessage
RECURSIVE SendDown(_, _, _, _)
SendDown(st, j, addr, e) ==
    IF j < 1 THEN st
    ELSE LET r == sendInstructionMessage(st.out, st.locs[j], addr,
                                         e.text_addr, e.text_offset)
             st2 == [locs |-> [st.locs EXCEPT ![j] = r.loc], out |-> r.out]
         IN  IF ~r.ret THEN st2 ELSE SendDown(st2, j - 1, addr, e)

\* for (size_t j = i + 1; !done && j < count; j++) done = !sendInstruction...
RECURSIVE SendUp(_, _, _, _)
SendUp(st, j, addr, e) ==
    IF j > Len(st.locs) THEN st
    ELSE LET r == sendInstructionMessage(st.out, st.locs[j], addr,
                                         e.text_addr, e.text_offset)
             st2 == [locs |-> [st.locs EXCEPT ![j] = r.loc], out |-> r.out]
         IN  IF ~r.ret THEN st2 ELSE SendUp(st2, j + 1, addr, e)

-----------------------------------------------------------------------------
(* main(): the state after the command line is parsed and the ELF loaded.  *)

ParseOff ==
    /\ p_pc = "off"
    /\ p_n = 0
    /\ p_str = ""
    /\ p_ret = NULL
    /\ p_loads = <<>>
    /\ p_text = NULL
    /\ p_act = NULL
    /\ option_match = <<>>

HarnessOff ==
    /\ m_pc = "off"
    /\ m_action = Builtin(<<>>, "ACTION_INVALID")
    /\ m_I = I_ret
    /\ m_offset = 0
    /\ m_rnd = 0
    /\ m_ret = FALSE

Init ==
    /\ \E actions \in RuleLists :
          LET st == ParsedOptions(actions)
          IN  /\ ~st.error
              /\ Len(actions) <= MAX_ACTIONS
              /\ option_actions = actions
              /\ plugins = st.plugins
              /\ option_notify = st.option_notify
    /\ option_sync \in -1 .. MaxSync
    /\ \E ta \in TextAddrs, to \in TextOffsets, fa \in FreeAddrs :
          /\ elf = [text_addr |-> ta, text_offset |-> to, free_addr |-> fa]
          /\ \E items \in CodeSections : code = Disassemble(items, 1, ta)
    /\ pc = "binary"
    /\ ip = 1
    /\ sync = 0
    /\ failed = FALSE
    /\ idx = -1
    /\ locs = <<>>
    /\ i = 0
    /\ files = [f \in {} |-> NULL]
    /\ have_call = {}
    /\ have = [print |-> FALSE, passthru |-> FALSE, trap |-> FALSE]
    /\ file_addr = 0
    /\ out = <<>>
    /\ calls = <<>>
    /\ HarnessOff
    /\ ParseOff

\* sendBinaryMessage(backend.out, mode, filename);
SendBinary ==
    /\ pc = "binary"
    /\ out' = Append(out, Msg("binary", "exe", 0, 0, 0, <<>>))
    /\ pc' = "init"
    /\ UNCHANGED <<option_actions, option_notify, option_sync, plugins, elf,
                   code, ip, sync, failed, idx, locs, i, files, have_call,
                   have, file_addr, calls, matchVars, parseVars>>

\* initPlugins(backend.out, &elf); and the declarations before the loop.
InitPlugins ==
    /\ pc = "init"
    /\ plugins' = initPlugins(plugins)
    /\ calls' = calls \o initPluginsCalls(plugins)
    /\ file_addr' = elf.free_addr + 16777216
    /\ i' = 1
    /\ pc' = "trampolines"
    /\ UNCHANGED <<option_actions, option_notify, option_sync, elf, code, ip,
                   sync, failed, idx, locs, files, have_call, have, out,
                   matchVars, parseVars>>

\* The rounding as it would be if it left the address as it is.
PageAlignNone(addr) == addr

PageAlign(addr) ==
    IF addr % PAGE_SIZE = 0 THEN addr
    ELSE (addr + PAGE_SIZE) - (addr % PAGE_SIZE)

\* The look-up in `files' as it would be if it never found a loaded ELF.
FileLoadedNever(fs, filename) == FALSE

\* files.find(action->filename) != files.end()
FileLoaded(fs, filename) == filename \in DOMAIN fs

\* The look-up in `have_call' as it would be if it found every name.
HaveCallAlways(names, name) == TRUE

\* have_call.find(action->name) != have_call.end()
HaveCall(names, name) == name \in names

\* One iteration of `for (const auto action: option_actions)'.
Trampoline ==
    /\ pc = "trampolines"
    /\ i <= Len(option_actions)
    /\ LET action == option_actions[i]
           loaded == FileLoaded(files, action.filename)
           free_addr == PageAlign(file_addr + 8 * PAGE_SIZE)
           target == IF loaded THEN files[action.filename]
                     ELSE [filename |-> action.filename, base |-> free_addr,
                           free_addr |-> TargetFreeAddr(action.filename)]
           out1 == IF loaded THEN out
                   ELSE Append(out, Msg("elf-file", action.filename,
                                        target.base, 0, 0, <<>>))
       IN  IF action.kind = "ACTION_CALL"
           THEN /\ files' = [f \in DOMAIN files \cup {action.filename} |->
                               IF f = action.filename THEN target
                               ELSE files[f]]
                /\ file_addr' = IF loaded THEN file_addr
                                ELSE free_addr + target.free_addr
                /\ option_actions' =
                       [option_actions EXCEPT ![i].elf = target]
                /\ IF ~HaveCall(have_call, action.name)
                   THEN /\ out' = Append(out1,
                                    Msg("call-trampoline", action.name, 0, 0,
                                        0, <<action.args, action.clean,
                                             action.call>>))
                        /\ have_call' = have_call \cup {action.name}
                   ELSE /\ out' = out1
                        /\ have_call' = have_call
                /\ have' = have
           ELSE /\ have' = [print |-> have.print
                                        \/ action.kind = "ACTION_PRINT",
                            passthru |-> have.passthru
                                        \/ action.kind = "ACTION_PASSTHRU",
                            trap |-> have.trap
                                        \/ action.kind = "ACTION_TRAP"]
                /\ UNCHANGED <<files, file_addr, option_actions, out,
                               have_call>>
    /\ i' = i + 1
    /\ UNCHANGED <<pc, option_notify, option_sync, plugins, elf, code, ip,
                   sync, failed, idx, locs, calls, matchVars, parseVars>>

\* The end of the loop as it would be if the trap trampoline were sent
\* first and the passthru trampoline last.
TrampolinesDoneTrapFirst ==
    /\ pc = "trampolines"
    /\ i > Len(option_actions)
    /\ out' = out
              \o (IF have.trap
                  THEN <<Msg("trap-trampoline", "", 0, 0, 0, <<>>)>>
                  ELSE <<>>)
              \o (IF have.print
                  THEN <<Msg("print-trampoline", "", 0, 0, 0, <<>>)>>
                  ELSE <<>>)
              \o (IF have.passthru
                  THEN <<Msg("passthru-trampoline", "", 0, 0, 0, <<>>)>>
                  ELSE <<>>)
    /\ pc' = "disasm"
    /\ ip' = 1
    /\ sync' = 0
    /\ failed' = FALSE
    /\ UNCHANGED <<option_actions, option_notify, option_sync, plugins, elf,
                   code, idx, locs, i, files, have_call, have, file_addr,
                   calls, matchVars, parseVars>>

\* After the loop: the passthru, print and trap trampolines, then the
\* set-up of the disassembly loop.
TrampolinesDone ==
    /\ pc = "trampolines"
    /\ i > Len(option_actions)
    /\ out' = out
              \o (IF have.passthru
                  THEN <<Msg("passthru-trampoline", "", 0, 0, 0, <<>>)>>
                  ELSE <<>>)
              \o (IF have.print
                  THEN <<Msg("print-trampoline", "", 0, 0, 0, <<>>)>>
                  ELSE <<>>)
              \o (IF have.trap
                  THEN <<Msg("trap-trampoline", "", 0, 0, 0, <<>>)>>
                  ELSE <<>>)
    /\ pc' = "disasm"
    /\ ip' = 1
    /\ sync' = 0
    /\ failed' = FALSE
    /\ UNCHANGED <<option_actions, option_notify, option_sync, plugins, elf,
                   code, idx, locs, i, files, have_call, have, file_addr,
                   calls, matchVars, parseVars>>

-----------------------------------------------------------------------------
(* The disassembly loop: one action per iteration of                       *)
(* `while (cs_disasm_iter(handle, &code, &size, &address, I))'.            *)

\* The countdown step as it would be if a data pseudo-instruction met during
\* the countdown started it again.
DisasmSkipRestart ==
    /\ pc = "disasm"
    /\ ip <= Len(code)
    /\ sync > 0
    /\ sync' = IF IsData(code[ip])
               THEN (IF option_sync < 0 THEN UINT_MAX ELSE option_sync)
               ELSE sync - 1
    /\ ip' = ip + 1
    /\ UNCHANGED <<pc, option_actions, option_notify, option_sync, plugins,
                   elf, code, failed, idx, locs, i, files, have_call, have,
                   file_addr, out, calls, matchVars, parseVars>>

\* The countdown step as it would be if the countdown ended with it.
DisasmSkipOnce ==
    /\ pc = "disasm"
    /\ ip <= Len(code)
    /\ sync > 0
    /\ sync' = 0
    /\ ip' = ip + 1
    /\ UNCHANGED <<pc, option_actions, option_notify, option_sync, plugins,
                   elf, code, failed, idx, locs, i, files, have_call, have,
                   file_addr, out, calls, matchVars, parseVars>>

\* if (sync > 0) { sync--; continue; }
DisasmSkip ==
    /\ pc = "disasm"
    /\ ip <= Len(code)
    /\ sync > 0
    /\ sync' = sync - 1
    /\ ip' = ip + 1
    /\ UNCHANGED <<pc, option_actions, option_notify, option_sync, plugins,
                   elf, code, failed, idx, locs, i, files, have_call, have,
                   file_addr, out, calls, matchVars, parseVars>>

\* if (I->mnemonic[0] == '.') { failed = true; sync = option_sync; continue; }
\* sync is unsigned, so -1 becomes UINT_MAX.
DisasmData ==
    /\ pc = "disasm"
    /\ ip <= Len(code)
    /\ sync = 0
    /\ IsData(code[ip])
    /\ failed' = TRUE
    /\ sync' = IF option_sync < 0 THEN UINT_MAX ELSE option_sync
    /\ ip' = ip + 1
    /\ UNCHANGED <<pc, option_actions, option_notify, option_sync, plugins,
                   elf, code, idx, locs, i, files, have_call, have, file_addr,
                   out, calls, matchVars, parseVars>>

\* The buffer as it would be if new locations were put in front.
PushFront(v, loc) == <<loc>> \o v

\* locs.push_back(loc);
PushBack(v, loc) == Append(v, loc)

\* Notify or match, then buffer the Location.
DisasmInsn ==
    /\ pc = "disasm"
    /\ ip <= Len(code)
    /\ sync = 0
    /\ ~IsData(code[ip])
    /\ LET I == code[ip]
           offset == I.address - elf.text_addr
       IN  /\ IF option_notify
              THEN /\ calls' = calls \o notifyPlugins(plugins, offset)
                   /\ plugins' = plugins
                   /\ idx' = -1
              ELSE /\ calls' = calls \o matchPluginsCalls(plugins, offset)
                   /\ plugins' = matchPlugins(plugins, I)
                   /\ idx' = match(option_actions, I, offset, plugins', 0)
           /\ locs' = PushBack(locs,
                               Location(offset, I.size, idx' >= 0, idx'))
    /\ ip' = ip + 1
    /\ UNCHANGED <<pc, option_actions, option_notify, option_sync, elf, code,
                   sync, failed, i, files, have_call, have, file_addr, out,
                   matchVars, parseVars>>

\* The disassembler stops before the end of the section: code != end.
DisasmStop ==
    /\ pc = "disasm"
    /\ ip <= Len(code)
    /\ pc' = "error"
    /\ UNCHANGED <<option_actions, option_notify, option_sync, plugins, elf,
                   code, ip, sync, failed, idx, locs, i, files, have_call,
                   have, file_addr, out, calls, matchVars, parseVars>>

\* The end of pass one as it would be if a desync were never fatal.
DisasmEndNeverFatal ==
    /\ pc = "disasm"
    /\ ip > Len(code)
    /\ IF option_notify
       THEN pc' = "pass2" /\ i' = 1
       ELSE pc' = "emit" /\ i' = Len(locs)
    /\ UNCHANGED <<option_actions, option_notify, option_sync, plugins, elf,
                   code, ip, sync, failed, idx, locs, files, have_call, have,
                   file_addr, out, calls, matchVars, parseVars>>

\* The loop ends at the end of the section; a desync is fatal without --sync.
DisasmEnd ==
    /\ pc = "disasm"
    /\ ip > Len(code)
    /\ IF failed /\ option_sync < 0
       THEN pc' = "error" /\ i' = i
       ELSE IF option_notify
       THEN pc' = "pass2" /\ i' = 1
       ELSE pc' = "emit" /\ i' = Len(locs)
    /\ UNCHANGED <<option_actions, option_notify, option_sync, plugins, elf,
                   code, ip, sync, failed, idx, locs, files, have_call, have,
                   file_addr, out, calls, matchVars, parseVars>>

\* One iteration of the second pass: decode again, match, update in place.
PassTwo ==
    /\ pc = "pass2"
    /\ i <= Len(locs)
    /\ LET loc == locs[i]
           text_offset == loc.offset
           address == elf.text_addr + text_offset
           offset == elf.text_offset + text_offset
           k == DecodeAt(address)
       IN  IF k = 0
           THEN /\ pc' = "error"
                /\ UNCHANGED <<plugins, calls, idx, locs, i>>
           ELSE /\ calls' = calls \o matchPluginsCalls(plugins, offset)
                /\ plugins' = matchPlugins(plugins, code[k])
                /\ idx' = match(option_actions, code[k], offset, plugins', 0)
                /\ locs' = IF idx' >= 0
                           THEN [locs EXCEPT ![i] =
                                   Location(text_offset, code[k].size, TRUE,
                                            idx')]
                           ELSE locs
                /\ i' = i + 1
                /\ pc' = pc
    /\ UNCHANGED <<option_actions, option_notify, option_sync, elf, code, ip,
                   sync, failed, files, have_call, have, file_addr, out,
                   matchVars, parseVars>>

PassTwoDone ==
    /\ pc = "pass2"
    /\ i > Len(locs)
    /\ pc' = "emit"
    /\ i' = Len(locs)
    /\ UNCHANGED <<option_actions, option_notify, option_sync, plugins, elf,
                   code, ip, sync, failed, idx, locs, files, have_call, have,
                   file_addr, out, calls, matchVars, parseVars>>

-----------------------------------------------------------------------------
(* Emission, in reverse: one action per iteration of                       *)
(* `for (ssize_t i = (ssize_t)count - 1; i >= 0; i--)'.                    *)

\* if (!loc.patch) continue;
EmitSkip ==
    /\ pc = "emit"
    /\ i >= 1
    /\ ~locs[i].patch
    /\ i' = i - 1
    /\ UNCHANGED <<pc, option_actions, option_notify, option_sync, plugins,
                   elf, code, ip, sync, failed, idx, locs, files, have_call,
                   have, file_addr, out, calls, matchVars, parseVars>>

\* What a plugin's patch callback writes to the stream it is given.
PluginPatch(path, offset) == Msg("plugin-patch", path, 0, offset, 0, <<>>)

\* The patch step as it would be if a plugin action without a patch entry
\* point fell through to the builtin patch message.
PatchMessagesFallThrough(action, table, offset) ==
    IF action.kind = "ACTION_PLUGIN" /\ table[action.plugin].patchFunc
    THEN <<PluginPatch(action.plugin, offset)>>
    ELSE <<Msg("patch", action.name, 0, offset, 0, <<>>)>>

\* What the patch step writes to the stream: for a plugin action the
\* plugin's own output if it has a patch entry point and nothing otherwise,
\* for a builtin action one patch message.
PatchMessages(action, table, offset) ==
    IF action.kind = "ACTION_PLUGIN"
    THEN IF table[action.plugin].patchFunc
         THEN <<PluginPatch(action.plugin, offset)>>
         ELSE <<>>
    ELSE <<Msg("patch", action.name, 0, offset, 0, <<>>)>>

\* The callback of the patch step: patchFunc(out, &elf, handle, offset, I,
\* action->context).
PatchCalls(action, table, offset) ==
    IF action.kind = "ACTION_PLUGIN" /\ table[action.plugin].patchFunc
    THEN <<Call("patch", action.plugin, action.context, offset)>>
    ELSE <<>>

\* The emission step as it would be if the walk up came before the walk
\* down.
EmitPatchUpFirst ==
    /\ pc = "emit"
    /\ i >= 1
    /\ locs[i].patch
    /\ LET loc == locs[i]
           addr == elf.text_addr + loc.offset
           offset == loc.offset + elf.text_offset
           k == DecodeAt(addr)
           st1 == SendUp([locs |-> locs, out |-> out], i + 1, addr, elf)
           st2 == SendDown(st1, i, addr, elf)
           action == option_actions[loc.action + 1]
       IN  IF k = 0
           THEN /\ pc' = "error"
                /\ UNCHANGED <<locs, out, calls, i>>
           ELSE /\ locs' = st2.locs
                /\ calls' = calls \o PatchCalls(action, plugins, offset)
                /\ out' = st2.out \o PatchMessages(action, plugins, offset)
                /\ i' = i - 1
                /\ pc' = pc
    /\ UNCHANGED <<option_actions, option_notify, option_sync, plugins, elf,
                   code, ip, sync, failed, idx, files, have_call, have,
                   file_addr, matchVars, parseVars>>

\* The instruction messages of the window, then the patch.
EmitPatch ==
    /\ pc = "emit"
    /\ i >= 1
    /\ locs[i].patch
    /\ LET loc == locs[i]
           addr == elf.text_addr + loc.offset
           offset == loc.offset + elf.text_offset
           k == DecodeAt(addr)
           st1 == SendDown([locs |-> locs, out |-> out], i, addr, elf)
           st2 == SendUp(st1, i + 1, addr, elf)
           action == option_actions[loc.action + 1]
       IN  IF k = 0
           THEN /\ pc' = "error"
                /\ UNCHANGED <<locs, out, calls, i>>
           ELSE /\ locs' = st2.locs
                /\ calls' = calls \o PatchCalls(action, plugins, offset)
                /\ out' = st2.out \o PatchMessages(action, plugins, offset)
                /\ i' = i - 1
                /\ pc' = pc
    /\ UNCHANGED <<option_actions, option_notify, option_sync, plugins, elf,
                   code, ip, sync, failed, idx, files, have_call, have,
                   file_addr, matchVars, parseVars>>

\* finiPlugins(backend.out, &elf);
FiniPlugins ==
    /\ pc = "emit"
    /\ i < 1
    /\ calls' = calls \o finiPluginsCalls(plugins)
    /\ pc' = "fini"
    /\ UNCHANGED <<option_actions, option_notify, option_sync, plugins, elf,
                   code, ip, sync, failed, idx, locs, i, files, have_call,
                   have, file_addr, out, matchVars, parseVars>>

\* The last step as it would be without the emit message.
SendEmitMissing ==
    /\ pc = "fini"
    /\ pc' = "done"
    /\ UNCHANGED <<option_actions, option_notify, option_sync, plugins, elf,
                   code, ip, sync, failed, idx, locs, i, files, have_call,
                   have, file_addr, out, calls, matchVars, parseVars>>

\* sendEmitMessage(backend.out, ...); waitBackend(backend); return 0;
SendEmit ==
    /\ pc = "fini"
    /\ out' = Append(out, Msg("emit", "a.out", 0, 0, 0, <<>>))
    /\ pc' = "done"
    /\ UNCHANGED <<option_actions, option_notify, option_sync, plugins, elf,
                   code, ip, sync, failed, idx, locs, i, files, have_call,
                   have, file_addr, calls, matchVars, parseVars>>

Next ==
    \/ SendBinary
    \/ InitPlugins
    \/ Trampoline
    \/ TrampolinesDone
    \/ DisasmSkip
    \/ DisasmData
    \/ DisasmInsn
    \/ DisasmStop
    \/ DisasmEnd
    \/ PassTwo
    \/ PassTwoDone
    \/ EmitSkip
    \/ EmitPatch
    \/ FiniPlugins
    \/ SendEmit

Spec == Init /\ [][Next]_vars

-----------------------------------------------------------------------------
(* The evaluator on its own: matchAction applied to a rule and an          *)
(* instruction drawn from bounded sets.                                    *)

Comparisons ==
    {"MATCH_CMP_EQ", "MATCH_CMP_NEQ", "MATCH_CMP_LT", "MATCH_CMP_LEQ",
     "MATCH_CMP_GT", "MATCH_CMP_GEQ"}

\* The match entries of the harness (what parseMatch can build).
EntryPool ==
    {NonZero("MATCH_TRUE"), NonZero("MATCH_FALSE"), NonZero("MATCH_CALL"),
     IntEntry("MATCH_RETURN", "MATCH_CMP_EQ_ZERO", {}),
     E_mov,
     MatchEntry("MATCH_ASSEMBLY", -1, "FIELD_NONE", "MATCH_CMP_NEQ", {},
                {"retq", "xchgq %rax, %rbx"}, "", ""),
     E_plugin("/p.so"),
     E_csvEmpty,
     IntEntry("MATCH_OFFSET", "MATCH_CMP_LT", {}),
     IntEntry("MATCH_RANDOM", "MATCH_CMP_LT", {5}),
     MatchEntry("MATCH_OP", -1, "FIELD_SIZE", "MATCH_CMP_GEQ", {2}, {}, "",
                ""),
     MatchEntry("MATCH_REG", 0, "FIELD_TYPE", "MATCH_CMP_EQ_ZERO", {}, {}, "",
                ""),
     MatchEntry("MATCH_SRC", 1, "FIELD_WRITE", "MATCH_CMP_NEQ", {0, 1}, {},
                "", ""),
     \* -M 'op.type!=7,8'
     MatchEntry("MATCH_OP", -1, "FIELD_TYPE", "MATCH_CMP_NEQ", {7, 8}, {}, "",
                ""),
     \* -M 'imm[2].size=sizes[0]' with a CSV file that has no rows.
     MatchEntry("MATCH_IMM", 2, "FIELD_SIZE", "MATCH_CMP_EQ", {}, {}, "",
                "sizes")}
    \cup {IntEntry("MATCH_SIZE", c, S) : c \in Comparisons, S \in {{2}, {1, 9}}}

RECURSIVE EntryLists(_)
EntryLists(n) ==
    IF n = 0 THEN {<<>>}
    ELSE {Append(l, e) : l \in EntryLists(n - 1), e \in EntryPool}

HarnessInsns == {I_ret, I_call, I_mov9, I_xchg, I_lea}

PipelineOff ==
    /\ pc = "off"
    /\ option_actions = <<>>
    /\ option_notify = FALSE
    /\ option_sync = -1
    /\ elf = [text_addr |-> 0, text_offset |-> 0, free_addr |-> 0]
    /\ code = <<>>
    /\ ip = 1
    /\ sync = 0
    /\ failed = FALSE
    /\ idx = -1
    /\ locs = <<>>
    /\ i = 0
    /\ files = [f \in {} |-> NULL]
    /\ have_call = {}
    /\ have = [print |-> FALSE, passthru |-> FALSE, trap |-> FALSE]
    /\ file_addr = 0
    /\ out = <<>>
    /\ calls = <<>>

InitMatch ==
    /\ PipelineOff
    /\ \E n \in 1 .. MaxEntries :
          \E entries \in EntryLists(n) :
             m_action = Builtin(entries, "ACTION_TRAP")
    /\ \E I \in HarnessInsns, ta \in TextAddrs :
          m_I = Disassemble(<<I>>, 1, ta)[1]
    /\ m_offset = 0
    /\ m_rnd \in {0, 5}
    /\ \E r \in {0, 1} :
          plugins = [q \in {"/p.so"} |->
                       [openPlugin([plugins |-> NoPlugins,
                                    option_notify |-> FALSE,
                                    error |-> FALSE], q).plugins[q]
                          EXCEPT !.result = r]]
    /\ m_pc = "call"
    /\ m_ret = FALSE
    /\ ParseOff

\* matchAction(handle, action, I, offset)
MatchActionCall ==
    /\ m_pc = "call"
    /\ m_ret' = matchAction(m_action, m_I, m_offset, plugins, m_rnd)
    /\ m_pc' = "return"
    /\ UNCHANGED <<pipeVars, plugins, m_action, m_I, m_offset, m_rnd,
                   parseVars>>

NextMatch == MatchActionCall

SpecMatch == InitMatch /\ [][NextMatch]_vars

-----------------------------------------------------------------------------
(* The command-line parser on its own: openPlugin and parseAction applied   *)
(* to option texts drawn from bounded sets.                                 *)

\* The number of options on a command line.
MaxOptions == 3

\* The number of arguments in a call action.
MaxArgs == 2

\* The plugin names as written in an option.  "missing" names no file.
PluginNames ==
    {"p", "./p.so", "/p.so", "q", "/q.so", "r", "i", "m", "n", "missing"}

\* The first lines of openPlugin: append ".so" unless it is there, then
\* realpath(); "" stands for nullptr.
realpath(basename) ==
    CASE basename \in {"p", "./p.so", "/p.so"} -> "/p.so"
      [] basename \in {"q", "/q.so"} -> "/q.so"
      [] basename = "r" -> "/r.so"
      [] basename = "i" -> "/i.so"
      [] basename = "m" -> "/m.so"
      [] basename = "n" -> "/n.so"
      [] OTHER -> ""

\* The argument tokens of parseAction's first switch and the kind each one
\* gives (asm, integers and strings are cases of their own).
ArgumentTokens ==
    {<<"TOKEN_ADDR", "ARGUMENT_ADDR">>, <<"TOKEN_BASE", "ARGUMENT_BASE">>,
     <<"TOKEN_DST", "ARGUMENT_DST">>, <<"TOKEN_IMM", "ARGUMENT_IMM">>,
     <<"TOKEN_INSTR", "ARGUMENT_BYTES">>, <<"TOKEN_MEM", "ARGUMENT_MEM">>,
     <<"TOKEN_NEXT", "ARGUMENT_NEXT">>, <<"TOKEN_OFFSET", "ARGUMENT_OFFSET">>,
     <<"TOKEN_OP", "ARGUMENT_OP">>, <<"TOKEN_RANDOM", "ARGUMENT_RANDOM">>,
     <<"TOKEN_REG", "ARGUMENT_REG">>, <<"TOKEN_SIZE", "ARGUMENT_BYTES_SIZE">>,
     <<"TOKEN_STATIC_ADDR", "ARGUMENT_STATIC_ADDR">>,
     <<"TOKEN_SRC", "ARGUMENT_SRC">>, <<"TOKEN_TARGET", "ARGUMENT_TARGET">>,
     <<"TOKEN_TRAMPOLINE", "ARGUMENT_TRAMPOLINE">>,
     <<"TOKEN_AL", "ARGUMENT_AL">>, <<"TOKEN_AH", "ARGUMENT_AH">>,
     <<"TOKEN_BL", "ARGUMENT_BL">>, <<"TOKEN_BH", "ARGUMENT_BH">>,
     <<"TOKEN_CL", "ARGUMENT_CL">>, <<"TOKEN_CH", "ARGUMENT_CH">>,
     <<"TOKEN_DL", "ARGUMENT_DL">>, <<"TOKEN_DH", "ARGUMENT_DH">>,
     <<"TOKEN_BPL", "ARGUMENT_BPL">>, <<"TOKEN_SPL", "ARGUMENT_SPL">>,
     <<"TOKEN_DIL", "ARGUMENT_DIL">>, <<"TOKEN_SIL", "ARGUMENT_SIL">>,
     <<"TOKEN_R8B", "ARGUMENT_R8B">>, <<"TOKEN_R9B", "ARGUMENT_R9B">>,
     <<"TOKEN_R10B", "ARGUMENT_R10B">>, <<"TOKEN_R11B", "ARGUMENT_R11B">>,
     <<"TOKEN_R12B", "ARGUMENT_R12B">>, <<"TOKEN_R13B", "ARGUMENT_R13B">>,
     <<"TOKEN_R14B", "ARGUMENT_R14B">>, <<"TOKEN_R15B", "ARGUMENT_R15B">>,
     <<"TOKEN_AX", "ARGUMENT_AX">>, <<"TOKEN_BX", "ARGUMENT_BX">>,
     <<"TOKEN_CX", "ARGUMENT_CX">>, <<"TOKEN_DX", "ARGUMENT_DX">>,
     <<"TOKEN_BP", "ARGUMENT_BP">>, <<"TOKEN_SP", "ARGUMENT_SP">>,
     <<"TOKEN_DI", "ARGUMENT_DI">>, <<"TOKEN_SI", "ARGUMENT_SI">>,
     <<"TOKEN_R8W", "ARGUMENT_R8W">>, <<"TOKEN_R9W", "ARGUMENT_R9W">>,
     <<"TOKEN_R10W", "ARGUMENT_R10W">>, <<"TOKEN_R11W", "ARGUMENT_R11W">>,
     <<"TOKEN_R12W", "ARGUMENT_R12W">>, <<"TOKEN_R13W", "ARGUMENT_R13W">>,
     <<"TOKEN_R14W", "ARGUMENT_R14W">>, <<"TOKEN_R15W", "ARGUMENT_R15W">>,
     <<"TOKEN_EAX", "ARGUMENT_EAX">>, <<"TOKEN_EBX", "ARGUMENT_EBX">>,
     <<"TOKEN_ECX", "ARGUMENT_ECX">>, <<"TOKEN_EDX", "ARGUMENT_EDX">>,
     <<"TOKEN_EBP", "ARGUMENT_EBP">>, <<"TOKEN_ESP", "ARGUMENT_ESP">>,
     <<"TOKEN_EDI", "ARGUMENT_EDI">>, <<"TOKEN_ESI", "ARGUMENT_ESI">>,
     <<"TOKEN_R8D", "ARGUMENT_R8D">>, <<"TOKEN_R9D", "ARGUMENT_R9D">>,
     <<"TOKEN_R10D", "ARGUMENT_R10D">>, <<"TOKEN_R11D", "ARGUMENT_R11D">>,
     <<"TOKEN_R12D", "ARGUMENT_R12D">>, <<"TOKEN_R13D", "ARGUMENT_R13D">>,
     <<"TOKEN_R14D", "ARGUMENT_R14D">>, <<"TOKEN_R15D", "ARGUMENT_R15D">>,
     <<"TOKEN_RAX", "ARGUMENT_RAX">>, <<"TOKEN_RBX", "ARGUMENT_RBX">>,
     <<"TOKEN_RCX", "ARGUMENT_RCX">>, <<"TOKEN_RDX", "ARGUMENT_RDX">>,
     <<"TOKEN_RBP", "ARGUMENT_RBP">>, <<"TOKEN_RSP", "ARGUMENT_RSP">>,
     <<"TOKEN_RSI", "ARGUMENT_RSI">>, <<"TOKEN_RDI", "ARGUMENT_RDI">>,
     <<"TOKEN_R8", "ARGUMENT_R8">>, <<"TOKEN_R9", "ARGUMENT_R9">>,
     <<"TOKEN_R10", "ARGUMENT_R10">>, <<"TOKEN_R11", "ARGUMENT_R11">>,
     <<"TOKEN_R12", "ARGUMENT_R12">>, <<"TOKEN_R13", "ARGUMENT_R13">>,
     <<"TOKEN_R14", "ARGUMENT_R14">>, <<"TOKEN_R15", "ARGUMENT_R15">>,
     <<"TOKEN_RFLAGS", "ARGUMENT_RFLAGS">>, <<"TOKEN_RIP", "ARGUMENT_RIP">>}

ArgumentOf(token) ==
    IF \E pair \in ArgumentTokens : pair[1] = token
    THEN (CHOOSE pair \in ArgumentTokens : pair[1] = token)[2]
    ELSE "ARGUMENT_INVALID"

\* The kinds that take an index.
OperandArguments ==
    {"ARGUMENT_OP", "ARGUMENT_SRC", "ARGUMENT_DST", "ARGUMENT_IMM",
     "ARGUMENT_REG", "ARGUMENT_MEM"}

\* The register list as it would be if it held the address kind too.
PointerArgumentsWithAddr ==
    {"ARGUMENT_ADDR", "ARGUMENT_RAX", "ARGUMENT_RFLAGS"}

\* The register kinds of the second switch, which may be passed by pointer.
PointerArguments ==
    {"ARGUMENT_AL", "ARGUMENT_AH", "ARGUMENT_BL", "ARGUMENT_BH",
     "ARGUMENT_CL", "ARGUMENT_CH", "ARGUMENT_DL", "ARGUMENT_DH",
     "ARGUMENT_BPL", "ARGUMENT_DIL", "ARGUMENT_SIL", "ARGUMENT_R8B",
     "ARGUMENT_R9B", "ARGUMENT_R10B", "ARGUMENT_R11B", "ARGUMENT_R12B",
     "ARGUMENT_R13B", "ARGUMENT_R14B", "ARGUMENT_R15B", "ARGUMENT_AX",
     "ARGUMENT_BX", "ARGUMENT_CX", "ARGUMENT_DX", "ARGUMENT_BP",
     "ARGUMENT_DI", "ARGUMENT_SI", "ARGUMENT_R8W", "ARGUMENT_R9W",
     "ARGUMENT_R10W", "ARGUMENT_R11W", "ARGUMENT_R12W", "ARGUMENT_R13W",
     "ARGUMENT_R14W", "ARGUMENT_R15W", "ARGUMENT_EAX", "ARGUMENT_EBX",
     "ARGUMENT_ECX", "ARGUMENT_EDX", "ARGUMENT_EBP", "ARGUMENT_EDI",
     "ARGUMENT_ESI", "ARGUMENT_R8D", "ARGUMENT_R9D", "ARGUMENT_R10D",
     "ARGUMENT_R11D", "ARGUMENT_R12D", "ARGUMENT_R13D", "ARGUMENT_R14D",
     "ARGUMENT_R15D", "ARGUMENT_RAX", "ARGUMENT_RBX", "ARGUMENT_RCX",
     "ARGUMENT_RDX", "ARGUMENT_RBP", "ARGUMENT_RSP", "ARGUMENT_RSI",
     "ARGUMENT_RDI", "ARGUMENT_R8", "ARGUMENT_R9", "ARGUMENT_R10",
     "ARGUMENT_R11", "ARGUMENT_R12", "ARGUMENT_R13", "ARGUMENT_R14",
     "ARGUMENT_R15", "ARGUMENT_RFLAGS"}

\* One argument as written: an optional `&', a token, for asm an optional
\* `.suffix', an optional `[index]' (<<>> if none), and the value of an
\* integer or string token.
ArgText(ptr, token, suffix, index, int, string) ==
    [ptr |-> ptr, token |-> token, suffix |-> suffix, index |-> index,
     i |-> int, s |-> string]

\* One iteration of the argument loop: st is [error, args].
parseArgument(entries, st, t) ==
    IF st.error THEN st
    ELSE
    LET named == {k \in 1 .. Len(entries) :
                     entries[k].basename # "" /\ entries[k].basename = t.s}
        arg == CASE t.token = "TOKEN_ASM" ->
                      (CASE t.suffix = "" -> "ARGUMENT_ASM"
                         [] t.suffix = "TOKEN_LENGTH" -> "ARGUMENT_ASM_LEN"
                         [] t.suffix = "TOKEN_SIZE" -> "ARGUMENT_ASM_SIZE"
                         [] OTHER -> "ARGUMENT_INVALID")
                 [] t.token = "TOKEN_INTEGER" -> "ARGUMENT_INTEGER"
                 [] t.token = "TOKEN_STRING" ->
                      IF named # {} THEN "ARGUMENT_USER"
                      ELSE "ARGUMENT_INVALID"
                 [] OTHER -> ArgumentOf(t.token)
        \* `case TOKEN_STRING' falls through to `default'.
        unexpectedToken ==
            \/ t.token = "TOKEN_STRING"
            \/ arg = "ARGUMENT_INVALID"
            \/ t.token # "TOKEN_ASM" /\ t.suffix # ""
        \* parseIndex(parser, 0, 7), or the token after the argument.
        indexError ==
            IF arg \in OperandArguments
            THEN t.index = <<>> \/ t.index[1] < 0 \/ t.index[1] > 7
            ELSE t.index # <<>>
        ptrError ==
            t.ptr /\ arg \notin OperandArguments \cup PointerArguments
        value == IF arg \in OperandArguments THEN t.index[1]
                 ELSE IF arg = "ARGUMENT_INTEGER" THEN t.i
                 ELSE 0
        duplicate == \E k \in 1 .. Len(st.args) : st.args[k].kind = arg
    IN  IF unexpectedToken \/ indexError \/ ptrError
        THEN [st EXCEPT !.error = TRUE]
        ELSE [st EXCEPT
                !.args = Append(st.args,
                                Argument(arg, t.ptr, duplicate, value,
                                         IF arg = "ARGUMENT_USER" THEN t.s
                                         ELSE ""))]

RECURSIVE parseArguments(_, _, _, _)
parseArguments(entries, st, args, k) ==
    IF k > Len(args) THEN st
    ELSE parseArguments(entries, parseArgument(entries, st, args[k]), args,
                        k + 1)

\* An -A option as written: the action token, the name in `plugin[NAME]',
\* the attributes in `call[...]' (<<>> if no bracket), the symbol, the
\* arguments in `(...)' (<<>> if no parenthesis), and the token after `@'
\* ("" if there is no `@').
ActionText(token, plugin, attrs, symbol, args, filename) ==
    [token |-> token, plugin |-> plugin, attrs |-> attrs, symbol |-> symbol,
     args |-> args, filename |-> filename]

Attributes ==
    {"TOKEN_AFTER", "TOKEN_BEFORE", "TOKEN_CLEAN", "TOKEN_CONDITIONAL",
     "TOKEN_NAKED", "TOKEN_REPLACE"}

\* The frame policy as it would be if every call were clean.
CleanAlways(clean, naked) == TRUE

\* clean = (clean? true: !naked)
Clean(clean, naked) == IF clean THEN TRUE ELSE ~naked

\* call = (after? CALL_AFTER: (replace? CALL_REPLACE:
\*        (conditional? CALL_CONDITIONAL: CALL_BEFORE)))
CallKind(after, replace, conditional) ==
    IF after THEN "CALL_AFTER"
    ELSE IF replace THEN "CALL_REPLACE"
    ELSE IF conditional THEN "CALL_CONDITIONAL"
    ELSE "CALL_BEFORE"

\* parseAction(str, entries): st is [plugins, option_notify, error]; the
\* result is [error, action, plugins, option_notify], and no action is
\* built when an error ended the parse.
parseAction(text, entries, st) ==
    LET kind == CASE text.token = "TOKEN_CALL" -> "ACTION_CALL"
                  [] text.token = "TOKEN_PASSTHRU" -> "ACTION_PASSTHRU"
                  [] text.token = "TOKEN_PRINT" -> "ACTION_PRINT"
                  [] text.token = "TOKEN_PLUGIN" -> "ACTION_PLUGIN"
                  [] text.token = "TOKEN_TRAP" -> "ACTION_TRAP"
                  [] OTHER -> "ACTION_INVALID"
        has(attr) == \E k \in 1 .. Len(text.attrs) : text.attrs[k] = attr
        naked == has("TOKEN_NAKED")
        positions == {attr \in {"TOKEN_BEFORE", "TOKEN_AFTER",
                                "TOKEN_REPLACE", "TOKEN_CONDITIONAL"} :
                         has(attr)}
        clean == Clean(has("TOKEN_CLEAN"), naked)
        call == CallKind(has("TOKEN_AFTER"), has("TOKEN_REPLACE"),
                         has("TOKEN_CONDITIONAL"))
        pathname == realpath(text.plugin)
        opened == IF kind = "ACTION_PLUGIN" /\ pathname # ""
                  THEN openPlugin(st, pathname)
                  ELSE st
        parsed == IF kind = "ACTION_CALL"
                  THEN parseArguments(entries,
                                      [error |-> FALSE, args |-> <<>>],
                                      text.args, 1)
                  ELSE [error |-> FALSE, args |-> <<>>]
        failed_ ==
            \/ Len(entries) = 0
            \/ kind = "ACTION_INVALID"
            \/ kind = "ACTION_PLUGIN" /\ (pathname = "" \/ opened.error)
            \/ kind # "ACTION_PLUGIN" /\ text.plugin # ""
            \/ kind = "ACTION_CALL" /\
                  \/ \E k \in 1 .. Len(text.attrs) :
                        text.attrs[k] \notin Attributes
                  \/ text.symbol = ""
                  \/ parsed.error
                  \/ text.filename = ""
                  \/ has("TOKEN_CLEAN") /\ naked
                  \/ Cardinality(positions) > 1
            \/ kind # "ACTION_CALL" /\
                  (text.attrs # <<>> \/ text.symbol # "" \/ text.args # <<>>
                      \/ text.filename # "")
    IN  IF failed_
        THEN [error |-> TRUE, action |-> NULL, plugins |-> st.plugins,
              option_notify |-> st.option_notify]
        ELSE [error |-> FALSE,
              action |->
                  CASE kind = "ACTION_CALL" ->
                         Action(entries, kind, text.filename, text.symbol, "",
                                parsed.args, clean, call)
                    [] kind = "ACTION_PLUGIN" ->
                         Action(entries, kind, text.plugin, "", pathname,
                                <<>>, FALSE, "CALL_BEFORE")
                    [] OTHER -> Builtin(entries, kind),
              plugins |-> opened.plugins,
              option_notify |-> opened.option_notify]

\* -M 'addr=table[0]', with a CSV file table.csv.
E_csvTable ==
    MatchEntry("MATCH_ADDRESS", -1, "FIELD_NONE", "MATCH_CMP_EQ", {4198400},
               {}, "", "table")

\* The -M options before the -A option.
ParseEntries ==
    {<<>>, <<NonZero("MATCH_RETURN")>>, <<NonZero("MATCH_CALL"), E_csvTable>>}

\* The arguments written in the call actions.
ArgTexts ==
    {ArgText(FALSE, "TOKEN_OP", "", <<0>>, 0, ""),
     ArgText(FALSE, "TOKEN_OP", "", <<1>>, 0, ""),
     ArgText(TRUE, "TOKEN_MEM", "", <<7>>, 0, ""),
     ArgText(TRUE, "TOKEN_ESP", "", <<>>, 0, ""),
     ArgText(TRUE, "TOKEN_R15B", "", <<>>, 0, ""),
     ArgText(FALSE, "TOKEN_SRC", "", <<8>>, 0, ""),
     ArgText(FALSE, "TOKEN_INTEGER", "", <<>>, 1, ""),
     ArgText(FALSE, "TOKEN_INTEGER", "", <<>>, 2, ""),
     ArgText(TRUE, "TOKEN_INTEGER", "", <<>>, 1, ""),
     ArgText(FALSE, "TOKEN_RAX", "", <<>>, 0, ""),
     ArgText(TRUE, "TOKEN_RAX", "", <<>>, 0, ""),
     ArgText(TRUE, "TOKEN_RIP", "", <<>>, 0, ""),
     ArgText(FALSE, "TOKEN_ADDR", "", <<>>, 0, ""),
     ArgText(TRUE, "TOKEN_ADDR", "", <<>>, 0, ""),
     ArgText(TRUE, "TOKEN_ASM", "TOKEN_SIZE", <<>>, 0, ""),
     ArgText(FALSE, "TOKEN_STRING", "", <<1>>, 0, "table"),
     ArgText(FALSE, "TOKEN_STRING", "", <<>>, 0, "other")}

RECURSIVE ArgLists(_)
ArgLists(n) ==
    IF n = 0 THEN {<<>>}
    ELSE LET shorter == ArgLists(n - 1)
         IN  shorter
             \cup {Append(args, t) :
                      args \in {a \in shorter : Len(a) = n - 1},
                      t \in ArgTexts}

\* The -A options given to parseAction.
ActionTexts ==
    {ActionText(token, "", <<>>, "", <<>>, "") :
        token \in {"TOKEN_PRINT", "TOKEN_PASSTHRU", "TOKEN_TRAP",
                    "TOKEN_STRING"}}
    \cup {ActionText("TOKEN_PLUGIN", name, <<>>, "", <<>>, "") :
             name \in {"p", "q", "m", "missing"}}
    \cup {ActionText("TOKEN_CALL", "", attrs, "f", args, "bin") :
             attrs \in {<<>>, <<"TOKEN_AFTER", "TOKEN_NAKED">>},
             args \in ArgLists(MaxArgs)}
    \cup {ActionText("TOKEN_CALL", "", attrs, "f", <<>>, "bin") :
             attrs \in {<<"TOKEN_BEFORE", "TOKEN_REPLACE">>,
                         <<"TOKEN_CLEAN", "TOKEN_NAKED">>,
                         <<"TOKEN_BEFORE">>, <<"TOKEN_REPLACE">>,
                         <<"TOKEN_NAKED">>, <<"TOKEN_CLEAN", "TOKEN_CLEAN">>,
                         <<"TOKEN_CONDITIONAL", "TOKEN_CLEAN">>,
                         <<"TOKEN_NAKED", "TOKEN_CONDITIONAL">>,
                         <<"TOKEN_AFTER", "TOKEN_CONDITIONAL">>,
                         <<"TOKEN_AFTER", "TOKEN_AFTER">>}}
    \cup {ActionText("TOKEN_CALL", "", <<>>, "f", <<>>, "")}

InitParse ==
    /\ PipelineOff
    /\ HarnessOff
    /\ plugins = NoPlugins
    /\ p_pc = "options"
    /\ p_n = 0
    /\ p_str = ""
    /\ p_ret = NULL
    /\ p_loads = <<>>
    /\ p_text = NULL
    /\ p_act = NULL
    /\ option_match = <<>>

\* openPlugin(basename): the table and option_notify after the call, the
\* instance returned, and the library loaded if one was.
OpenPluginCall ==
    /\ p_pc = "options"
    /\ p_n < MaxOptions
    /\ \E basename \in PluginNames :
          LET pathname == realpath(basename)
              st == openPlugin([plugins |-> plugins,
                                option_notify |-> option_notify,
                                error |-> FALSE], pathname)
          IN  /\ p_str' = basename
              /\ IF pathname = ""
                 THEN /\ p_pc' = "error"
                      /\ p_ret' = NULL
                      /\ UNCHANGED <<plugins, option_notify, p_loads>>
                 ELSE /\ p_pc' = IF st.error THEN "error" ELSE "options"
                      /\ p_ret' = IF st.error THEN NULL
                                  ELSE st.plugins[pathname]
                      /\ plugins' = st.plugins
                      /\ option_notify' = st.option_notify
                      /\ p_loads' = IF pathname \in DOMAIN plugins
                                    THEN p_loads
                                    ELSE Append(p_loads, pathname)
    /\ p_n' = p_n + 1
    /\ UNCHANGED <<pc, option_actions, option_sync, elf, code, ip, sync,
                   failed, idx, locs, i, files, have_call, have, file_addr,
                   out, calls, matchVars, p_text, p_act, option_match>>

\* parseAction(str, entries) for one -A option.  Only a plugin action reads
\* or writes the plugin table, so the other actions are parsed as the first
\* option of the command line.
ParseActionCall ==
    /\ p_pc = "options"
    /\ p_n < MaxOptions
    /\ \E entries \in ParseEntries, text \in ActionTexts :
          LET r == parseAction(text, entries,
                               [plugins |-> plugins,
                                option_notify |-> option_notify,
                                error |-> FALSE])
          IN  /\ p_n = 0 \/ text.token = "TOKEN_PLUGIN"
              /\ p_text' = [str |-> text, entries |-> entries]
              /\ p_act' = [error |-> r.error, action |-> r.action]
              /\ p_pc' = IF r.error THEN "error" ELSE "action"
              /\ plugins' = r.plugins
              /\ option_notify' = r.option_notify
              /\ p_loads' = IF DOMAIN r.plugins = DOMAIN plugins THEN p_loads
                            ELSE Append(p_loads, realpath(text.plugin))
    /\ p_n' = p_n + 1
    /\ p_str' = ""
    /\ p_ret' = NULL
    /\ UNCHANGED <<pc, option_actions, option_sync, elf, code, ip, sync,
                   failed, idx, locs, i, files, have_call, have, file_addr,
                   out, calls, matchVars, option_match>>

NextParse == OpenPluginCall \/ ParseActionCall

SpecParse == InitParse /\ [][NextParse]_vars

-----------------------------------------------------------------------------
(* The option loop of main: -M and -A options in any order, then the checks *)
(* after the loop.                                                          *)

\* -M true
E_true == NonZero("MATCH_TRUE")

\* The actions of n pairs `-M true -A trap'.
TrapRules(n) == [k \in 1 .. n |-> Builtin(<<E_true>>, "ACTION_TRAP")]

\* The entries the -M options parse to.
MatchOptions == {NonZero("MATCH_RETURN"), NonZero("MATCH_CALL"), E_csvTable}

\* The -A options: the actions without attributes and arguments.
ActionOptions ==
    {text \in ActionTexts : text.attrs = <<>> /\ text.args = <<>>}

\* The command line starts with no option, or with MAX_ACTIONS pairs
\* `-M true -A trap' already parsed (p_ret is their number); p_text is the
\* list of the options parsed after them.
InitOptions ==
    /\ pc = "off"
    /\ \E n \in {0, MAX_ACTIONS} :
          /\ option_actions = TrapRules(n)
          /\ p_ret = n
    /\ option_notify = FALSE
    /\ option_sync = -1
    /\ elf = [text_addr |-> 0, text_offset |-> 0, free_addr |-> 0]
    /\ code = <<>>
    /\ ip = 1
    /\ sync = 0
    /\ failed = FALSE
    /\ idx = -1
    /\ locs = <<>>
    /\ i = 0
    /\ files = [f \in {} |-> NULL]
    /\ have_call = {}
    /\ have = [print |-> FALSE, passthru |-> FALSE, trap |-> FALSE]
    /\ file_addr = 0
    /\ out = <<>>
    /\ calls = <<>>
    /\ HarnessOff
    /\ plugins = NoPlugins
    /\ p_pc = "main"
    /\ p_n = 0
    /\ p_str = ""
    /\ p_loads = <<>>
    /\ p_text = <<>>
    /\ p_act = NULL
    /\ option_match = <<>>

\* case OPTION_MATCH: parseMatch(optarg, option_match) appends the entry.
MatchOption ==
    /\ p_pc = "main"
    /\ p_n < MaxOptions
    /\ \E entry \in MatchOptions :
          /\ option_match' = Append(option_match, entry)
          /\ p_text' = Append(p_text, [option |-> "M", entry |-> entry])
    /\ p_n' = p_n + 1
    /\ UNCHANGED <<pipeVars, plugins, matchVars, p_pc, p_str, p_ret,
                   p_loads, p_act>>

\* The -A case as it would be if the pending entries were copied, not
\* moved, into the action.
ActionOptionCopies ==
    /\ p_pc = "main"
    /\ p_n < MaxOptions
    /\ \E text \in ActionOptions :
          LET r == parseAction(text, option_match,
                               [plugins |-> plugins,
                                option_notify |-> option_notify,
                                error |-> FALSE])
          IN  /\ p_text' = Append(p_text, [option |-> "A", text |-> text])
              /\ p_act' = [error |-> r.error, action |-> r.action]
              /\ p_pc' = IF r.error THEN "error" ELSE "main"
              /\ plugins' = r.plugins
              /\ option_notify' = r.option_notify
              /\ p_loads' = IF DOMAIN r.plugins = DOMAIN plugins THEN p_loads
                            ELSE Append(p_loads, realpath(text.plugin))
              /\ option_actions' = IF r.error THEN option_actions
                                   ELSE Append(option_actions, r.action)
              /\ option_match' = option_match
    /\ p_n' = p_n + 1
    /\ UNCHANGED <<pc, option_sync, elf, code, ip, sync, failed, idx, locs, i,
                   files, have_call, have, file_addr, out, calls, matchVars,
                   p_str, p_ret>>

\* case OPTION_ACTION: action = parseAction(optarg, option_match), which
\* moves the pending entries into the action;
\* option_actions.push_back(action).
ActionOption ==
    /\ p_pc = "main"
    /\ p_n < MaxOptions
    /\ \E text \in ActionOptions :
          LET r == parseAction(text, option_match,
                               [plugins |-> plugins,
                                option_notify |-> option_notify,
                                error |-> FALSE])
          IN  /\ p_text' = Append(p_text, [option |-> "A", text |-> text])
              /\ p_act' = [error |-> r.error, action |-> r.action]
              /\ p_pc' = IF r.error THEN "error" ELSE "main"
              /\ plugins' = r.plugins
              /\ option_notify' = r.option_notify
              /\ p_loads' = IF DOMAIN r.plugins = DOMAIN plugins THEN p_loads
                            ELSE Append(p_loads, realpath(text.plugin))
              /\ option_actions' = IF r.error THEN option_actions
                                   ELSE Append(option_actions, r.action)
              /\ option_match' = IF r.error THEN option_match ELSE <<>>
    /\ p_n' = p_n + 1
    /\ UNCHANGED <<pc, option_sync, elf, code, ip, sync, failed, idx, locs, i,
                   files, have_call, have, file_addr, out, calls, matchVars,
                   p_str, p_ret>>

\* After the loop: pending -M entries and more than MAX_ACTIONS actions are
\* errors.
EndOptions ==
    /\ p_pc = "main"
    /\ p_pc' = IF option_match # <<>> THEN "error"
               ELSE IF Len(option_actions) > MAX_ACTIONS THEN "error"
               ELSE "parsed"
    /\ UNCHANGED <<pipeVars, plugins, matchVars, p_n, p_str, p_ret, p_loads,
                   p_text, p_act, option_match>>

NextOptions == MatchOption \/ ActionOption \/ EndOptions

SpecOptions == InitOptions /\ [][NextOptions]_vars

-----------------------------------------------------------------------------
(* The --start and --end options: positionToAddr and the narrowing of the   *)
(* code section, on an ELF and positions drawn from bounded sets.           *)

\* The dynamic symbols of the input binary: <<name, st_value>>.
DynamicSymbols ==
    {<<"entry", 4198400>>, <<"inner", 4198408>>, <<"last", 4198415>>,
     <<"limit", 4198416>>, <<"below", 4198399>>, <<"table", 4202496>>}

\* A position as written: "" (option not given), `0x' and hex digits (with
\* or without junk after them), or a name.
HexPosition(value, junk) ==
    [kind |-> "hex", value |-> value, junk |-> junk, name |-> ""]

SymbolPosition(name) ==
    [kind |-> "symbol", value |-> 0, junk |-> FALSE, name |-> name]

NoPosition == [kind |-> "", value |-> 0, junk |-> FALSE, name |-> ""]

Positions ==
    {NoPosition}
    \cup {HexPosition(value, FALSE) :
             value \in {0, 4198399, 4198400, 4198404, 4198416, 4198420}}
    \cup {HexPosition(4198404, TRUE)}
    \cup {SymbolPosition(name) :
             name \in {"entry", "inner", "last", "limit", "below", "table",
                        "nosuch"}}

\* positionToAddr(elf, option, pos): [error, addr].
positionToAddr(e, pos) ==
    IF pos.kind = "hex"
    THEN [error |-> pos.junk, addr |-> pos.value]
    ELSE IF \E sym \in DynamicSymbols : sym[1] = pos.name
    THEN LET sym_addr ==
                 (CHOOSE sym \in DynamicSymbols : sym[1] = pos.name)[2]
         IN  [error |-> \/ sym_addr < e.text_addr
                        \/ sym_addr >= e.text_addr + e.text_size,
              addr |-> sym_addr]
    ELSE [error |-> TRUE, addr |-> 0]

\* p_ret is the code section as parsed, p_text the two options.
InitRange ==
    /\ pc = "off"
    /\ option_actions = <<>>
    /\ option_notify = FALSE
    /\ option_sync = -1
    /\ \E text_size \in {8, 16} :
          elf = [text_addr |-> 4198400, text_offset |-> 4096,
                 text_size |-> text_size, free_addr |-> 4210688]
    /\ code = <<>>
    /\ ip = 1
    /\ sync = 0
    /\ failed = FALSE
    /\ idx = -1
    /\ locs = <<>>
    /\ i = 0
    /\ files = [f \in {} |-> NULL]
    /\ have_call = {}
    /\ have = [print |-> FALSE, passthru |-> FALSE, trap |-> FALSE]
    /\ file_addr = 0
    /\ out = <<>>
    /\ calls = <<>>
    /\ HarnessOff
    /\ plugins = NoPlugins
    /\ p_pc = "start"
    /\ p_n = 0
    /\ p_str = ""
    /\ p_ret = elf
    /\ p_loads = <<>>
    /\ \E option_start \in Positions, option_end \in Positions :
          p_text = [option_start |-> option_start, option_end |-> option_end]
    /\ p_act = NULL
    /\ option_match = <<>>

\* if (option_start != "") ...: p_act keeps the address resolved.
StartOption ==
    /\ p_pc = "start"
    /\ LET r == positionToAddr(elf, p_text.option_start)
           offset == r.addr - elf.text_addr
       IN  IF p_text.option_start = NoPosition
           THEN /\ p_pc' = "end"
                /\ p_act' = [start |-> NULL]
                /\ elf' = elf
           ELSE IF r.error
           THEN /\ p_pc' = "error"
                /\ p_act' = [start |-> NULL]
                /\ elf' = elf
           ELSE /\ p_pc' = "end"
                /\ p_act' = [start |-> <<r.addr>>]
                /\ elf' = [elf EXCEPT
                             !.text_offset = elf.text_offset + offset,
                             !.text_addr = elf.text_addr + offset,
                             !.text_size = elf.text_size - offset]
    /\ UNCHANGED <<pc, option_actions, option_notify, option_sync, code, ip,
                   sync, failed, idx, locs, i, files, have_call, have,
                   file_addr, out, calls, plugins, matchVars, p_n, p_str,
                   p_ret, p_loads, p_text, option_match>>

\* if (option_end != "") ...
EndOption ==
    /\ p_pc = "end"
    /\ LET r == positionToAddr(elf, p_text.option_end)
           offset == (elf.text_addr + elf.text_size) - r.addr
       IN  IF p_text.option_end = NoPosition
           THEN /\ p_pc' = "ranged"
                /\ p_act' = [start |-> p_act.start, end |-> NULL]
                /\ elf' = elf
           ELSE IF r.error
           THEN /\ p_pc' = "error"
                /\ p_act' = [start |-> p_act.start, end |-> NULL]
                /\ elf' = elf
           ELSE /\ p_pc' = "ranged"
                /\ p_act' = [start |-> p_act.start, end |-> <<r.addr>>]
                /\ elf' = [elf EXCEPT !.text_size = elf.text_size - offset]
    /\ UNCHANGED <<pc, option_actions, option_notify, option_sync, code, ip,
                   sync, failed, idx, locs, i, files, have_call, have,
                   file_addr, out, calls, plugins, matchVars, p_n, p_str,
                   p_ret, p_loads, p_text, option_match>>

NextRange == StartOption \/ EndOption

SpecRange == InitRange /\ [][NextRange]_vars

-----------------------------------------------------------------------------
(* Properties.                                                             *)

Range(seq) == {seq[k] : k \in 1 .. Len(seq)}

\* The instruction a Location was buffered for.
InsnOf(loc) == code[DecodeAt(elf.text_addr + loc.offset)]

\* The offset value the selecting pass hands to the evaluator for a Location.
SelectionOffset(loc) ==
    IF option_notify THEN elf.text_offset + loc.offset ELSE loc.offset

\* The rules (1-based) that match the instruction of a Location, each
\* evaluated by itself with the plugins' match results for that instruction.
MatchingRules(loc) ==
    {k \in 1 .. Len(option_actions) :
        matchAction(option_actions[k], InsnOf(loc), SelectionOffset(loc),
                    matchPlugins(plugins, InsnOf(loc)), 0)}

\* The Locations whose selection is final: all of them in one-pass mode, in
\* two-pass mode those the second pass has visited.
Selected ==
    IF ~option_notify THEN 1 .. Len(locs)
    ELSE IF pc = "pass2" THEN 1 .. (i - 1)
    ELSE IF pc \in {"emit", "fini", "done"} THEN 1 .. Len(locs)
    ELSE {}

\* C1: every selected Location records the smallest command-line index whose
\* rule matches its instruction; patch is true iff some rule matches, and
\* without a match the recorded index is -1 (as the 10-bit field holds it).
C1_FirstMatchWins ==
    \A j \in Selected :
        LET M == MatchingRules(locs[j])
        IN  /\ locs[j].patch <=> (M # {})
            /\ locs[j].patch => locs[j].action = SetMin(M) - 1
            /\ ~locs[j].patch => locs[j].action = (-1) % (2 ^ 10)

\* C1 witness: a finished two-pass run in which an instruction matched by two
\* rules was given the first of them.
C1_Witness ==
    /\ pc = "done"
    /\ option_notify
    /\ \E j \in 1 .. Len(locs) :
          /\ locs[j].patch
          /\ Cardinality(MatchingRules(locs[j])) >= 2
          /\ locs[j].action = 0

\* C2: when matchAction returns true, every entry of the rule passes when it
\* is evaluated as a rule of its own against the same instruction.
C2_TrueOnlyIfEveryEntryPasses ==
    (m_pc = "return" /\ m_ret) =>
        \A k \in 1 .. Len(m_action.entries) :
            matchAction([m_action EXCEPT !.entries = <<m_action.entries[k]>>],
                        m_I, m_offset, plugins, m_rnd)

IsPatchEmission(m) == m.type \in {"patch", "plugin-patch"}

\* The stream positions of the instruction messages of a Location.
InstructionAt(o, loc) ==
    {a \in 1 .. Len(o) : /\ o[a].type = "instruction"
                         /\ o[a].offset = elf.text_offset + loc.offset}

\* The stream positions of the patch emissions of a Location.
PatchAt(o, loc) ==
    {b \in 1 .. Len(o) : /\ IsPatchEmission(o[b])
                         /\ o[b].offset = elf.text_offset + loc.offset}

\* C3: a patch emission is preceded by the instruction message of its own
\* location, no location has two instruction messages, and at the end of the
\* run every patched location has exactly one.
C3_InstructionOnceBeforePatch ==
    \A j \in 1 .. Len(locs) :
        /\ Cardinality(InstructionAt(out, locs[j])) <= 1
        /\ \A b \in PatchAt(out, locs[j]) :
              \E a \in InstructionAt(out, locs[j]) : a < b
        /\ (pc = "done" /\ locs[j].patch) =>
              Cardinality(InstructionAt(out, locs[j])) = 1

\* C3 witness: a finished run with two patched neighbours, each with its
\* patch in the stream.
C3_Witness ==
    /\ pc = "done"
    /\ \E j \in 1 .. Len(locs) - 1 :
          /\ locs[j].patch /\ locs[j + 1].patch
          /\ PatchAt(out, locs[j]) # {}
          /\ PatchAt(out, locs[j + 1]) # {}

\* C4: of two patch emissions, the earlier one has the larger offset.
C4_PatchesInDecreasingOffsetOrder ==
    \A a, b \in 1 .. Len(out) :
        (a < b /\ IsPatchEmission(out[a]) /\ IsPatchEmission(out[b]))
            => out[a].offset > out[b].offset

\* C4 witness: a finished run that emitted three patches.
C4_Witness ==
    /\ pc = "done"
    /\ Cardinality({a \in 1 .. Len(out) : IsPatchEmission(out[a])}) >= 3

\* The stage of the protocol a message belongs to.
Stage(m) ==
    CASE m.type = "binary" -> 1
      [] m.type \in {"elf-file", "call-trampoline", "passthru-trampoline",
                     "print-trampoline", "trap-trampoline"} -> 2
      [] m.type \in {"instruction", "patch", "plugin-patch"} -> 3
      [] m.type = "emit" -> 4

\* C5: the stream never steps back to an earlier stage, the binary message
\* is sent only as the first message, and a run that completes has sent the
\* binary message first and exactly one emit message, last.
C5_StreamShape ==
    /\ \A a, b \in 1 .. Len(out) : a < b => Stage(out[a]) <= Stage(out[b])
    /\ \A a \in 1 .. Len(out) : out[a].type = "binary" <=> a = 1
    /\ pc = "done" =>
          /\ Len(out) >= 2
          /\ out[1].type = "binary"
          /\ \A a \in 1 .. Len(out) : out[a].type = "emit" <=> a = Len(out)

\* C5 witness: a finished run whose stream has a message of every stage,
\* with an elf-file, a call trampoline, an instruction and a patch.
C5_Witness ==
    /\ pc = "done"
    /\ {"binary", "elf-file", "call-trampoline", "instruction", "patch",
        "emit"} \subseteq {out[a].type : a \in 1 .. Len(out)}


\* The Locations the emission loop has gone past.
Emitted ==
    IF pc = "emit" THEN (i + 1) .. Len(locs)
    ELSE IF pc \in {"fini", "done"} THEN 1 .. Len(locs)
    ELSE {}

\* The patch emission of a Location is the callback of the plugin.
PluginEmission(loc, action) ==
    /\ Cardinality(PatchAt(out, loc)) = 1
    /\ \A b \in PatchAt(out, loc) :
          out[b] = PluginPatch(action.plugin, elf.text_offset + loc.offset)

\* The patch emission of a Location is one patch message with the name of
\* the action and the file offset of the instruction.
MessageEmission(loc, action) ==
    /\ Cardinality(PatchAt(out, loc)) = 1
    /\ \A b \in PatchAt(out, loc) :
          /\ out[b].type = "patch"
          /\ out[b].name = action.name
          /\ out[b].offset = elf.text_offset + loc.offset

\* C6 as claimed: a patched Location gets the plugin's callback when its
\* action is a plugin action with a patch entry point and one patch message
\* in every other case; a Location that is not patched gets nothing.
C6_ExactlyOnePatchEmission ==
    \A j \in 1 .. Len(locs) :
        LET loc == locs[j]
            action == option_actions[loc.action + 1]
        IN  IF j \in Emitted /\ loc.patch
            THEN IF /\ action.kind = "ACTION_PLUGIN"
                    /\ plugins[action.plugin].patchFunc
                 THEN PluginEmission(loc, action)
                 ELSE MessageEmission(loc, action)
            ELSE PatchAt(out, loc) = {}

\* C6 as amended: as above, but a plugin action whose plugin has no patch
\* entry point gets no patch emission at all.
C6_PatchEmissionPerAction ==
    \A j \in 1 .. Len(locs) :
        LET loc == locs[j]
            action == option_actions[loc.action + 1]
        IN  IF j \in Emitted /\ loc.patch
            THEN IF action.kind = "ACTION_PLUGIN"
                 THEN IF plugins[action.plugin].patchFunc
                      THEN PluginEmission(loc, action)
                      ELSE PatchAt(out, loc) = {}
                 ELSE MessageEmission(loc, action)
            ELSE PatchAt(out, loc) = {}

\* C6 witness: a finished run with three patched Locations: one of a plugin
\* action without patch entry point and no emission, one with a patch
\* message, and one left unpatched.
C6_Witness ==
    /\ pc = "done"
    /\ \E j \in 1 .. Len(locs) :
          /\ locs[j].patch
          /\ option_actions[locs[j].action + 1].kind = "ACTION_PLUGIN"
          /\ ~plugins[option_actions[locs[j].action + 1].plugin].patchFunc
          /\ PatchAt(out, locs[j]) = {}
    /\ \E j \in 1 .. Len(locs) :
          /\ locs[j].patch
          /\ option_actions[locs[j].action + 1].kind # "ACTION_PLUGIN"
          /\ PatchAt(out, locs[j]) # {}
    /\ \E j \in 1 .. Len(locs) : ~locs[j].patch

\* C7: every instr, match, patch and fini callback is given the context the
\* plugin's init returned, or null if the plugin has no init.
C7_CallbacksGetInitContext ==
    \A c \in Range(calls) :
        c.hook \in {"instr", "match", "patch", "fini"} =>
            c.context = IF plugins[c.plugin].initFunc
                        THEN PluginContext(c.plugin)
                        ELSE NULL

\* |(text_addr + l.offset) - addr(p)| <= INT8_MAX + 2 + 15
InReach(l, p) ==
    Abs((elf.text_addr + l.offset) - (elf.text_addr + p.offset))
        <= INT8_MAX + 2 + 15

Distance(l, p) == Abs(l.offset - p.offset)

\* C8: the step that emits the patch of location p leaves an instruction
\* message in the stream for exactly the locations that had one before or
\* are within reach of p, and sends them before the patch emission.
C8_WindowSentBeforePatch ==
    [][(pc = "emit" /\ i >= 1 /\ locs[i].patch /\ pc' = "emit") =>
          /\ \A j \in 1 .. Len(locs) :
                (InstructionAt(out', locs[j]) # {}) <=>
                    \/ InstructionAt(out, locs[j]) # {}
                    \/ InReach(locs[j], locs[i])
          /\ \A b \in (Len(out) + 1) .. Len(out') :
                IsPatchEmission(out'[b]) => b = Len(out')]_vars

\* C8 witness: a finished run with a patched location, a location exactly
\* INT8_MAX + 2 + 15 bytes from it that was sent, and a farther one that
\* was not.
C8_Witness ==
    /\ pc = "done"
    /\ \E p, j, k \in 1 .. Len(locs) :
          /\ locs[p].patch
          /\ PatchAt(out, locs[p]) # {}
          /\ Distance(locs[j], locs[p]) = INT8_MAX + 2 + 15
          /\ InstructionAt(out, locs[j]) # {}
          /\ Distance(locs[k], locs[p]) > INT8_MAX + 2 + 15
          /\ InstructionAt(out, locs[k]) = {}

\* The emitted flag of every Location says whether its message is in the
\* stream, and no Location has two messages.
FlagsMatchStream ==
    \A j \in 1 .. Len(locs) :
        /\ Cardinality(InstructionAt(out, locs[j])) <= 1
        /\ locs[j].emitted <=> (InstructionAt(out, locs[j]) # {})

\* C9: no Location has its instruction message sent twice, its emitted flag
\* is set exactly when the message has been sent, and emission never clears
\* a flag.
C9_SentAtMostOnce ==
    /\ []FlagsMatchStream
    /\ [][pc = "emit" =>
             \A j \in 1 .. Len(locs) : locs[j].emitted => locs'[j].emitted]_vars

\* C9 witness: a finished run with a Location inside the windows of two
\* other, patched Locations, and one message for it.
C9_Witness ==
    /\ pc = "done"
    /\ \E p, q, j \in 1 .. Len(locs) :
          /\ p < j /\ j < q
          /\ locs[p].patch /\ locs[q].patch /\ ~locs[j].patch
          /\ InReach(locs[j], locs[p]) /\ InReach(locs[j], locs[q])
          /\ Cardinality(InstructionAt(out, locs[j])) = 1

\* The (symbol, binary, call-position, frame-policy, args) tuples of the call
\* actions.
CallTuples ==
    {<<a.symbol, a.filename, a.call, a.clean, a.args>> :
        a \in {b \in Range(option_actions) : b.kind = "ACTION_CALL"}}

\* C10: once the trampolines are defined, there are as many call-trampoline
\* messages as distinct tuples over the call actions.
C10_OneTrampolinePerCallTuple ==
    pc \in {"disasm", "pass2", "emit", "fini", "done"} =>
        Cardinality({a \in 1 .. Len(out) : out[a].type = "call-trampoline"})
            = Cardinality(CallTuples)


\* The positions of the messages of a type and name in the stream.
MessagesNamed(type, name) ==
    {a \in 1 .. Len(out) : out[a].type = type /\ out[a].name = name}

\* The call actions the trampoline loop has gone past (1-based indices).
CallActionsDone ==
    {k \in 1 .. Len(option_actions) :
        /\ option_actions[k].kind = "ACTION_CALL"
        /\ IF pc \in {"binary", "init", "off"} THEN FALSE
           ELSE IF pc = "trampolines" THEN k < i
           ELSE TRUE}

\* Every target of a call action gone past has exactly one elf-file message,
\* and it comes before the call-trampoline message of the action.
ElfFileOncePerTarget ==
    /\ \A k \in CallActionsDone :
          LET action == option_actions[k]
          IN  /\ Cardinality(MessagesNamed("elf-file", action.filename)) = 1
              /\ \A a \in MessagesNamed("elf-file", action.filename),
                    b \in MessagesNamed("call-trampoline", action.name) :
                    a < b
    /\ \A a \in 1 .. Len(out) :
          out[a].type = "elf-file" =>
              \E k \in CallActionsDone :
                  option_actions[k].filename = out[a].name

\* The step for a call action sends an elf-file message exactly when no
\* earlier call action names the same target, and then it is the first
\* message of the step.
ElfFileAtFirstUse ==
    (pc = "trampolines" /\ i <= Len(option_actions)
        /\ option_actions[i].kind = "ACTION_CALL") =>
        LET action == option_actions[i]
            first == \A k \in 1 .. (i - 1) :
                        option_actions[k].kind = "ACTION_CALL" =>
                            option_actions[k].filename # action.filename
            sent == {a \in (Len(out) + 1) .. Len(out') :
                        out'[a].type = "elf-file"}
        IN  /\ first => sent = {Len(out) + 1}
            /\ first => out'[Len(out) + 1].name = action.filename
            /\ ~first => sent = {}
            /\ option_actions'[i].elf.filename = action.filename

\* C11: each distinct target binary of the call actions is announced by one
\* elf-file message, sent at the first call action naming it and before the
\* call-trampoline message of any action using it; later actions naming the
\* same target send no elf-file message.
C11_ElfFileOnceAtFirstUse ==
    /\ []ElfFileOncePerTarget
    /\ [][ElfFileAtFirstUse]_vars

\* C11 witness: the trampolines are done for three call actions, the first
\* and the third naming the same target, with two elf-file messages.
C11_Witness ==
    /\ pc = "disasm"
    /\ \E j, k \in CallActionsDone :
          /\ j + 1 < k
          /\ option_actions[j].filename = option_actions[k].filename
          /\ option_actions[j + 1].kind = "ACTION_CALL"
          /\ option_actions[j + 1].filename # option_actions[j].filename
    /\ Cardinality({a \in 1 .. Len(out) : out[a].type = "elf-file"}) = 2

HookCallsOf(hook, path) ==
    {a \in 1 .. Len(calls) : calls[a].hook = hook /\ calls[a].plugin = path}

\* Init is called once per exporting plugin, after the binary message and
\* before every instr, match and patch callback; fini is called at most once
\* per exporting plugin, after every other callback and once the emission
\* loop has ended, and it has been called when the emit message is sent.
InitFirstFiniLast ==
    /\ \A path \in DOMAIN plugins :
          /\ Cardinality(HookCallsOf("init", path)) =
                IF plugins[path].initFunc /\ pc \notin {"binary", "init"}
                THEN 1 ELSE 0
          /\ Cardinality(HookCallsOf("fini", path)) =
                IF plugins[path].finiFunc /\ pc \in {"fini", "done"}
                THEN 1 ELSE 0
    /\ \A a, b \in 1 .. Len(calls) :
          /\ (calls[a].hook = "init"
                 /\ calls[b].hook \in {"instr", "match", "patch"}) => a < b
          /\ (calls[a].hook = "fini" /\ calls[b].hook # "fini") => b < a
    /\ (\E a \in 1 .. Len(calls) : calls[a].hook = "init") =>
          (Len(out) >= 1 /\ out[1].type = "binary")
    /\ (\E a \in 1 .. Len(calls) : calls[a].hook = "fini") =>
          (i < 1 /\ Emitted = 1 .. Len(locs))
    /\ (\E a \in 1 .. Len(out) : out[a].type = "emit") => pc = "done"

\* Once a fini callback has been made no patch emission follows, and the
\* step that makes the fini callbacks sends no emit message.
NoPatchAfterFini ==
    /\ (\E a \in 1 .. Len(calls) : calls[a].hook = "fini") =>
          {a \in 1 .. Len(out') : IsPatchEmission(out'[a])}
              = {a \in 1 .. Len(out) : IsPatchEmission(out[a])}
    /\ (\E a \in 1 .. Len(calls') : calls'[a].hook = "fini"
           /\ a > Len(calls)) =>
          \A a \in 1 .. Len(out') : out'[a].type # "emit"

\* C13: each plugin's init (if exported) is called exactly once, after the
\* binary message and before any instr, match or patch callback; each
\* plugin's fini (if exported) is called exactly once, after the last patch
\* emission and before the emit message.
C13_InitOnceFirstFiniOnceLast ==
    /\ []InitFirstFiniLast
    /\ [][NoPatchAfterFini]_vars

\* C13 witness: a finished run of a plugin with init and fini whose patch
\* callback was made, between one init and one fini callback.
C13_Witness ==
    /\ pc = "done"
    /\ \E path \in DOMAIN plugins :
          /\ plugins[path].initFunc /\ plugins[path].finiFunc
          /\ HookCallsOf("patch", path) # {}
          /\ HookCallsOf("match", path) # {}
          /\ Cardinality(HookCallsOf("init", path)) = 1
          /\ Cardinality(HookCallsOf("fini", path)) = 1
    /\ out[Len(out)].type = "emit"


\* Some loaded plugin exports instr.
ExportsInstr == \E path \in DOMAIN plugins : plugins[path].instrFunc

\* The callbacks of a hook were made once for each buffered Location, in the
\* order of the buffer.
CalledForEveryLocation(hook, path) ==
    /\ Cardinality(HookCallsOf(hook, path)) = Len(locs)
    /\ \A j \in 1 .. Len(locs) :
          \E a \in HookCallsOf(hook, path) :
             /\ calls[a].offset = IF hook = "match"
                                  THEN SelectionOffset(locs[j])
                                  ELSE locs[j].offset
             /\ Cardinality({b \in HookCallsOf(hook, path) : b < a}) = j - 1

\* Two-pass mode: during pass one no match callback is made and no Location
\* is selected, and instr is called for each Location as it is buffered;
\* every instr callback comes before the first match callback.  One-pass
\* mode: no instr callback is ever made and each Location is buffered with
\* its match callbacks made and its selection final.
PassDiscipline ==
    /\ pc = "pass2" => ExportsInstr
    /\ ExportsInstr =>
          /\ pc = "disasm" =>
                /\ \A a \in 1 .. Len(calls) : calls[a].hook # "match"
                /\ \A j \in 1 .. Len(locs) :
                      ~locs[j].patch /\ locs[j].action = (-1) % (2 ^ 10)
          /\ pc \in {"disasm", "pass2", "emit", "fini", "done"} =>
                \A path \in DOMAIN plugins :
                    plugins[path].instrFunc =>
                        CalledForEveryLocation("instr", path)
          /\ \A a, b \in 1 .. Len(calls) :
                (calls[a].hook = "instr" /\ calls[b].hook = "match") => a < b
          /\ pc \in {"emit", "fini", "done"} =>
                \A path \in DOMAIN plugins :
                    plugins[path].matchFunc =>
                        CalledForEveryLocation("match", path)
    /\ ~ExportsInstr =>
          /\ \A a \in 1 .. Len(calls) : calls[a].hook # "instr"
          /\ pc \in {"disasm", "emit", "fini", "done"} =>
                /\ \A path \in DOMAIN plugins :
                      plugins[path].matchFunc =>
                          CalledForEveryLocation("match", path)
                /\ \A j \in 1 .. Len(locs) :
                      locs[j].patch <=> (MatchingRules(locs[j]) # {})

\* The disassembly loop is followed by pass two exactly when some plugin
\* exports instr, and emission is entered from pass two exactly then.
PassTwoIffInstr ==
    /\ (pc = "disasm" /\ pc' \in {"pass2", "emit"}) =>
          (pc' = "pass2" <=> ExportsInstr)
    /\ (pc # "emit" /\ pc' = "emit") => (pc = "pass2" <=> ExportsInstr)

\* C14: pass two runs iff a loaded plugin exports instr.  In two-pass mode
\* instr is called for every buffered instruction before the first match
\* callback and no rule is evaluated in pass one; in one-pass mode no instr
\* callback happens and the match callbacks and the selection of an
\* instruction are done before the next instruction is decoded.
C14_TwoPassIffInstr ==
    /\ []PassDiscipline
    /\ [][PassTwoIffInstr]_vars

\* C14 witness: a finished two-pass run with a patched Location and several
\* instr callbacks.
C14_Witness ==
    /\ pc = "done"
    /\ ExportsInstr
    /\ \E j \in 1 .. Len(locs) : locs[j].patch
    /\ \E path \in DOMAIN plugins :
          Cardinality(HookCallsOf("instr", path)) >= 3


\* The rules (1-based) that consist of the single entry `plugin[P] != 0'
\* (written -M 'plugin[P]').
PluginRules(path) ==
    {k \in 1 .. Len(option_actions) :
        option_actions[k].entries = <<E_plugin(path)>>}

\* A selection step (the one-pass loop body, or an iteration of pass two)
\* for instruction I leaves in every plugin the result of its match for I,
\* and selects a rule `plugin[P] != 0' only if that result is non-zero, and
\* that rule or an earlier one if it is.
FreshResultFor(I) ==
    /\ \A path \in DOMAIN plugins :
          plugins[path].matchFunc =>
              plugins'[path].result = PluginMatchResult(path, I)
    /\ \A path \in DOMAIN plugins :
          \A k \in PluginRules(path) :
              /\ idx' = k - 1 => PluginMatchResult(path, I) # 0
              /\ PluginMatchResult(path, I) # 0 => idx' \in 0 .. (k - 1)

PluginResultIsFresh ==
    /\ (pc = "disasm" /\ ~option_notify /\ Len(locs') = Len(locs) + 1) =>
          FreshResultFor(code[ip])
    /\ (pc = "pass2" /\ i' = i + 1) => FreshResultFor(InsnOf(locs[i]))

\* A first rule `plugin[P] != 0' is recorded for exactly the selected
\* Locations for whose instruction P's match returns non-zero.
PluginRuleSelects ==
    \A path \in DOMAIN plugins :
        1 \in PluginRules(path) =>
            \A j \in Selected :
                (locs[j].patch /\ locs[j].action = 0) <=>
                    PluginMatchResult(path, InsnOf(locs[j])) # 0

\* C15: a plugin[P] entry evaluated against instruction I is compared with
\* what P's match returned for I in the same pass, never with a result left
\* from an earlier instruction, so a rule `plugin[P] != 0' selects exactly
\* the instructions for which P's match returns non-zero.
C15_PluginResultOfSameInstruction ==
    /\ []PluginRuleSelects
    /\ [][PluginResultIsFresh]_vars

\* C15 witness: a finished run in which a first rule `plugin[P] != 0' took
\* one instruction and not the next, for which P's match returned zero.
C15_Witness ==
    /\ pc = "done"
    /\ \E path \in DOMAIN plugins :
          /\ 1 \in PluginRules(path)
          /\ \E j \in 1 .. (Len(locs) - 1) :
                /\ locs[j].patch /\ locs[j].action = 0
                /\ PluginMatchResult(path, InsnOf(locs[j])) # 0
                /\ PluginMatchResult(path, InsnOf(locs[j + 1])) = 0
                /\ locs[j + 1].action # 0


\* Item k of the code section starts a countdown: it is a data
\* pseudo-instruction that does not fall among the N items after an earlier
\* one that started a countdown.
RECURSIVE StartsCountdown(_, _)
StartsCountdown(k, N) ==
    /\ IsData(code[k])
    /\ \A j \in 1 .. (k - 1) : (k - j <= N) => ~StartsCountdown(j, N)

\* Item k is one of the N items after a data pseudo-instruction that started
\* a countdown.
InCountdown(k, N) ==
    \E j \in 1 .. (k - 1) : k - j <= N /\ StartsCountdown(j, N)

\* C16: with sync = N >= 0 the Locations buffered so far are those of the
\* decoded items that are neither data pseudo-instructions nor among the N
\* items after a pseudo-instruction met while no countdown was active; a
\* pseudo-instruction inside a countdown is skipped and starts no countdown.
C16_SyncSkipsNextN ==
    (option_sync >= 0 /\ pc = "disasm") =>
        /\ Len(locs) = Cardinality({k \in 1 .. (ip - 1) :
                          ~IsData(code[k]) /\ ~InCountdown(k, option_sync)})
        /\ \A k \in 1 .. (ip - 1) :
              (~IsData(code[k]) /\ ~InCountdown(k, option_sync)) <=>
                  \E j \in 1 .. Len(locs) :
                      elf.text_addr + locs[j].offset = code[k].address
        /\ sync <= option_sync

\* C16 witness: with sync = 1, a pseudo-instruction, a second one skipped by
\* the countdown, and then an instruction that was buffered.
C16_Witness ==
    /\ pc = "disasm"
    /\ option_sync = 1
    /\ \E k \in 1 .. (ip - 3) :
          /\ IsData(code[k]) /\ StartsCountdown(k, 1)
          /\ IsData(code[k + 1])
          /\ ~IsData(code[k + 2])
          /\ \E j \in 1 .. Len(locs) :
                elf.text_addr + locs[j].offset = code[k + 2].address


\* A data pseudo-instruction has been decoded with no countdown active.
Desync == failed

\* Without --sync a desync keeps the run in the disassembly loop or aborts
\* it, and no instruction, patch or emit message is in the stream; an
\* aborted run had a desync without --sync or a disassembler that stopped
\* before the end of the section.
DesyncFatalWithoutSync ==
    /\ (Desync /\ option_sync < 0) =>
          /\ pc \in {"disasm", "error"}
          /\ \A a \in 1 .. Len(out) :
                /\ out[a].type \notin {"instruction", "emit"}
                /\ ~IsPatchEmission(out[a])
    /\ pc = "error" => ((Desync /\ option_sync < 0) \/ ip <= Len(code))
    /\ (Desync /\ pc \in {"pass2", "emit", "fini", "done"}) => option_sync >= 0

\* The disassembly loop is left for the error state when the disassembler
\* stopped before the end of the section or a desync happened without
\* --sync, and for the next stage otherwise.
AbortAtEndOfPass ==
    (pc = "disasm" /\ pc' # "disasm") =>
        (pc' = "error" <=> (ip <= Len(code) \/ (Desync /\ option_sync < 0)))

\* C17: a desync with sync = -1 aborts the run and no instruction, patch or
\* emit message is ever sent; with sync >= 0 a desync alone never aborts the
\* run; the run also aborts if the disassembler stops before the end of the
\* code section.
C17_DesyncFatalIffNoSync ==
    /\ []DesyncFatalWithoutSync
    /\ [][AbortAtEndOfPass]_vars

\* C17 witness: one run aborted at the end of the pass after a desync
\* without --sync, with Locations buffered before the desync.
C17_Witness ==
    /\ pc = "error"
    /\ Desync
    /\ option_sync < 0
    /\ ip > Len(code)
    /\ locs # <<>>
    /\ \E j \in 1 .. Len(locs) :
          \E k \in 1 .. Len(option_actions) :
              matchAction(option_actions[k], InsnOf(locs[j]),
                          SelectionOffset(locs[j]),
                          matchPlugins(plugins, InsnOf(locs[j])), 0)


\* The value of an integer entry of the rule under evaluation.
EntryValue(entry) ==
    makeMatchValue(entry.match, entry.idx, entry.field, m_I, m_offset,
                   IF entry.match = "MATCH_PLUGIN"
                   THEN plugins[entry.plugin].result ELSE 0, m_rnd)

\* C18: a rule with an integer entry that has a comparison from
\* {=, !=, <, <=, >, >=} and an empty value-set never matches, whatever the
\* position of the entry and the outcome of the entries before it.
C18_EmptyValueSetFails ==
    (/\ m_pc = "return"
     /\ \E k \in 1 .. Len(m_action.entries) :
           /\ m_action.entries[k].match \in IntegerKinds
           /\ m_action.entries[k].cmp \in Comparisons
           /\ m_action.entries[k].values = {}) => ~m_ret

\* The comparison table as claimed, with max and min written out.
PassesAsClaimed(cmp, x, S) ==
    CASE cmp = "MATCH_CMP_EQ_ZERO" -> x = 0
      [] cmp = "MATCH_CMP_NEQ_ZERO" -> x # 0
      [] cmp = "MATCH_CMP_EQ" -> \E v \in S : x = v
      [] cmp = "MATCH_CMP_NEQ" ->
            \/ Cardinality(S) = 1 /\ \A v \in S : x # v
            \/ Cardinality(S) > 1
      [] cmp = "MATCH_CMP_LT" -> \E v \in S : (\A w \in S : w <= v) /\ x < v
      [] cmp = "MATCH_CMP_LEQ" -> \E v \in S : (\A w \in S : w <= v) /\ x <= v
      [] cmp = "MATCH_CMP_GT" -> \E v \in S : (\A w \in S : w >= v) /\ x > v
      [] cmp = "MATCH_CMP_GEQ" -> \E v \in S : (\A w \in S : w >= v) /\ x >= v

\* The rule under evaluation has only integer entries with a defined value
\* and, where the comparison takes values, a non-empty value-set.
DefinedIntegerRule ==
    \A k \in 1 .. Len(m_action.entries) :
        LET entry == m_action.entries[k]
        IN  /\ entry.match \in IntegerKinds
            /\ EntryValue(entry).defined
            /\ entry.cmp \in Comparisons => entry.values # {}

\* C19: for a defined value x and a non-empty value-set S an entry passes
\* iff: =0: x = 0; !=0: x # 0; =: x in S; !=: (|S| = 1 and x not in S) or
\* |S| > 1; <: x < max(S); <=: x <= max(S); >: x > min(S); >=: x >= min(S).
C19_ComparisonTable ==
    (m_pc = "return" /\ DefinedIntegerRule) =>
        (m_ret <=>
            \A k \in 1 .. Len(m_action.entries) :
                PassesAsClaimed(m_action.entries[k].cmp,
                                EntryValue(m_action.entries[k]).x,
                                m_action.entries[k].values))

\* C19 witness: a rule that matched with a `!=' entry over two values one of
\* which is the attribute's value, and a `<' entry.
C19_Witness ==
    /\ m_pc = "return"
    /\ m_ret
    /\ DefinedIntegerRule
    /\ \E k \in 1 .. Len(m_action.entries) :
          /\ m_action.entries[k].cmp = "MATCH_CMP_NEQ"
          /\ Cardinality(m_action.entries[k].values) > 1
          /\ EntryValue(m_action.entries[k]).x \in m_action.entries[k].values
    /\ \E k \in 1 .. Len(m_action.entries) :
          m_action.entries[k].cmp = "MATCH_CMP_LT"

\* C20: a rule with an operand entry that names an operand that does not
\* exist, or that has no index and a field other than size, does not match,
\* whatever the comparison of the entry.
C20_UndefinedOperandFails ==
    (/\ m_pc = "return"
     /\ \E k \in 1 .. Len(m_action.entries) :
           /\ m_action.entries[k].match \in OperandKinds
           /\ ~EntryValue(m_action.entries[k]).defined) => ~m_ret


\* The operand filter of a kind as claimed.
FilterAsClaimed(kind, op) ==
    CASE kind = "MATCH_OP" -> TRUE
      [] kind = "MATCH_IMM" -> op.type = "X86_OP_IMM"
      [] kind = "MATCH_REG" -> op.type = "X86_OP_REG"
      [] kind = "MATCH_MEM" -> op.type = "X86_OP_MEM"
      [] kind = "MATCH_SRC" ->
            "CS_AC_READ" \in op.access \/ op.type = "X86_OP_IMM"
      [] kind = "MATCH_DST" -> "CS_AC_WRITE" \in op.access

\* C21: the operand filter of each kind is: op every operand, imm, reg and
\* mem the operands of that type, src the operands read and all immediates,
\* dst the operands written, whatever the access mask of the operand; so a
\* rule made of one entry `kind.size' compares the number of operands that
\* pass the filter as claimed (for op: the operand count).
C21_OperandFilters ==
    (/\ m_pc = "return"
     /\ Len(m_action.entries) = 1
     /\ m_action.entries[1].match \in OperandKinds
     /\ m_action.entries[1].idx < 0
     /\ m_action.entries[1].field = "FIELD_SIZE"
     /\ m_action.entries[1].values # {}) =>
        (m_ret <=>
            PassesAsClaimed(
                m_action.entries[1].cmp,
                Cardinality({k \in 1 .. Len(m_I.operands) :
                    FilterAsClaimed(m_action.entries[1].match,
                                    m_I.operands[k])}),
                m_action.entries[1].values))


\* The last option opened a library that was not in the table.
OpenedNew(pathname) ==
    /\ p_pc = "options"
    /\ pathname = realpath(p_str')
    /\ pathname # ""
    /\ pathname \notin DOMAIN plugins

\* C22: openPlugin rejects a library iff it exports none of the five entry
\* points init, instr, match, patch, fini; a library that exports any
\* non-empty subset of them, for example only match, is loaded.
C22_RejectIffNoEntryPoint ==
    [][\A pathname \in {realpath(name) : name \in PluginNames} :
          OpenedNew(pathname) =>
              /\ p_pc' = "error" <=> Exports(pathname) = {}
              /\ Exports(pathname) # {} => pathname \in DOMAIN plugins']_vars


\* An open of a library already in the table returns the instance in the
\* table, loads nothing and leaves the table as it was.
ReopenReturnsCached ==
    \A pathname \in DOMAIN plugins :
        (p_pc = "options" /\ p_n' = p_n + 1 /\ realpath(p_str') = pathname) =>
            /\ p_pc' = "options"
            /\ p_ret' = plugins[pathname]
            /\ p_loads' = p_loads
            /\ plugins' = plugins

\* The table only grows, and an instance in it stays as it is.
TableOnlyGrows ==
    \A pathname \in DOMAIN plugins :
        /\ pathname \in DOMAIN plugins'
        /\ plugins'[pathname] = plugins[pathname]

\* C23: opening a library whose canonical path is already in the plugin
\* table returns the same instance without loading it again and leaves the
\* table unchanged; the table only grows; every library is loaded at most
\* once; once two-pass mode is on no later open turns it off.
C23_ReopenCachedTableGrows ==
    /\ [](\A a, b \in 1 .. Len(p_loads) : p_loads[a] = p_loads[b] => a = b)
    /\ [][/\ ReopenReturnsCached
          /\ TableOnlyGrows
          /\ option_notify => option_notify']_vars

\* C23 witness: q (exports instr) then p (does not) were loaded, and p was
\* opened again under another name; two-pass mode is still on.
C23_Witness ==
    /\ p_pc = "options"
    /\ p_n = 3
    /\ p_loads = <<"/q.so", "/p.so">>
    /\ p_str = "./p.so"
    /\ p_ret = plugins["/p.so"]
    /\ option_notify


\* The positions in the stream of the messages of a type.
MessagesOfType(type) == {a \in 1 .. Len(out) : out[a].type = type}

\* The trampoline loop and the sends after it are over.
TrampolinesSent == pc \in {"disasm", "pass2", "emit", "fini", "done", "error"}

\* The trampoline message of a builtin action kind.
BuiltinTrampoline(kind) ==
    CASE kind = "ACTION_PASSTHRU" -> "passthru-trampoline"
      [] kind = "ACTION_PRINT" -> "print-trampoline"
      [] kind = "ACTION_TRAP" -> "trap-trampoline"

\* C24: the passthru, print and trap trampoline messages are each sent
\* exactly once iff at least one action of that kind exists and not at all
\* otherwise, after all elf-file and call-trampoline messages, in the order
\* passthru, print, trap.
C24_BuiltinTrampolinesOnceInOrder ==
    /\ \A kind \in {"ACTION_PASSTHRU", "ACTION_PRINT", "ACTION_TRAP"} :
          LET sent == MessagesOfType(BuiltinTrampoline(kind))
          IN  /\ Cardinality(sent) <= 1
              /\ ~TrampolinesSent => sent = {}
              /\ TrampolinesSent =>
                    (sent # {} <=>
                        \E k \in 1 .. Len(option_actions) :
                            option_actions[k].kind = kind)
              /\ \A a \in sent :
                    \A b \in MessagesOfType("call-trampoline")
                              \cup MessagesOfType("elf-file") : b < a
    /\ \A a \in MessagesOfType("passthru-trampoline") :
          \A b \in MessagesOfType("print-trampoline")
                    \cup MessagesOfType("trap-trampoline") : a < b
    /\ \A a \in MessagesOfType("print-trampoline") :
          \A b \in MessagesOfType("trap-trampoline") : a < b

\* C24 witness: a finished run with call actions and all three builtin
\* kinds, the trap action written before the last call action and the
\* passthru action last.
C24_Witness ==
    /\ pc = "done"
    /\ MessagesOfType("passthru-trampoline") # {}
    /\ MessagesOfType("print-trampoline") # {}
    /\ MessagesOfType("trap-trampoline") # {}
    /\ Cardinality(MessagesOfType("call-trampoline")) = 2
    /\ \E j, k \in 1 .. Len(option_actions) :
          /\ j < k
          /\ option_actions[j].kind = "ACTION_TRAP"
          /\ option_actions[k].kind = "ACTION_CALL"
    /\ option_actions[Len(option_actions)].kind = "ACTION_PASSTHRU"


\* A step of the trampoline loop that loads a target places it on a page
\* boundary 8 pages or more above the watermark and moves the watermark to
\* the base plus the size of the target's free region; any other step
\* leaves the watermark where it is.
LoadMovesWatermark ==
    pc \in {"trampolines", "disasm", "pass2", "emit", "fini", "done"} =>
        /\ \A filename \in DOMAIN files' \ DOMAIN files :
              LET target == files'[filename]
              IN  /\ target.base % PAGE_SIZE = 0
                  /\ target.base >= file_addr + 8 * PAGE_SIZE
                  /\ target.base < file_addr + 9 * PAGE_SIZE
                  /\ file_addr' = target.base + TargetFreeAddr(filename)
                  /\ out'[Len(out) + 1] =
                        Msg("elf-file", filename, target.base, 0, 0, <<>>)
        /\ DOMAIN files' = DOMAIN files => file_addr' = file_addr
        /\ \A filename \in DOMAIN files :
              filename \in DOMAIN files' /\ files'[filename] = files[filename]

\* The bases announced are distinct and strictly increasing in load order.
BasesIncrease ==
    \A a, b \in MessagesOfType("elf-file") :
        a < b => out[a].addr < out[b].addr

\* C25: a secondary ELF is loaded at a page-aligned base at least 8 pages
\* above the watermark; afterwards the watermark is the base plus the size
\* of the target's free region; the bases of the loaded targets are
\* distinct and strictly increasing in load order; the watermark changes
\* only when a new target is loaded.
C25_LoadBasesAlignedIncreasing ==
    /\ []BasesIncrease
    /\ [][LoadMovesWatermark]_vars

\* C25 witness: two targets loaded, the second above a watermark that was
\* not on a page boundary.
C25_Witness ==
    /\ pc = "done"
    /\ DOMAIN files = {"bin", "lib"}
    /\ files["lib"].base < files["bin"].base
    /\ (files["lib"].base + TargetFreeAddr("lib")) % PAGE_SIZE # 0
    /\ files["bin"].base % PAGE_SIZE = 0


\* The buffered locations that are patched (1-based indices).
Patched == {p \in 1 .. Len(locs) : locs[p].patch}

\* Location l is exactly INT8_MAX + 2 + 15 bytes from a patched location
\* and within reach of no other patched location.
AtEdgeOfOneWindow(l) ==
    \E p \in Patched :
        /\ Distance(locs[l], locs[p]) = INT8_MAX + 2 + 15
        /\ \A q \in Patched \ {p} : ~InReach(locs[l], locs[q])

\* C26 as stated: a location exactly INT8_MAX + 17 (= 144) bytes from a
\* patched location, and within reach of no other patched location, is not
\* sent an instruction message.
C26_EdgeLocationNotSent ==
    pc = "done" =>
        \A l \in 1 .. Len(locs) :
            AtEdgeOfOneWindow(l) => InstructionAt(out, locs[l]) = {}

\* C26 amended: a location has an instruction message at the end of the run
\* iff it is INT8_MAX + 17 (= 144) bytes or less from a patched location;
\* so a location exactly 144 bytes from a patched location is sent, and one
\* more than 144 bytes from every patched location is not.
C26_EdgeLocationSent ==
    pc = "done" =>
        \A l \in 1 .. Len(locs) :
            /\ InstructionAt(out, locs[l]) # {} <=>
                  \E p \in Patched :
                      Distance(locs[l], locs[p]) <= INT8_MAX + 2 + 15
            /\ AtEdgeOfOneWindow(l) => InstructionAt(out, locs[l]) # {}

\* C26 witness: a finished run with one patched location and a location
\* exactly 144 bytes below it that was sent.
C26_Witness ==
    /\ pc = "done"
    /\ Cardinality(Patched) = 1
    /\ \E l \in 1 .. Len(locs) :
          /\ AtEdgeOfOneWindow(l)
          /\ \A p \in Patched : l < p
          /\ InstructionAt(out, locs[l]) # {}


\* What sendInstructionMessage returns for location l and the address of
\* location p: l is within reach of p.
Reaches(l, p) ==
    sendInstructionMessage(<<>>, locs[l], elf.text_addr + locs[p].offset,
                           elf.text_addr, elf.text_offset).ret

\* C27: the buffered locations are in strictly increasing offset order;
\* when the patches are emitted, the reachability predicate is symmetric in
\* the address of a patch site and that of a location; and walking away
\* from a patch site in either direction, every location farther than one
\* that is out of reach is out of reach too.
C27_ReachSymmetricMonotone ==
    /\ \A a, b \in 1 .. Len(locs) : a < b => locs[a].offset < locs[b].offset
    /\ pc = "emit" =>
          \A p \in Patched :
              /\ \A l \in 1 .. Len(locs) : Reaches(l, p) <=> Reaches(p, l)
              /\ \A b \in {l \in 1 .. Len(locs) : ~Reaches(l, p)} :
                    \A a \in 1 .. Len(locs) :
                        ((a < b /\ b < p) \/ (p < b /\ b < a)) =>
                            ~Reaches(a, p)

\* C27 witness: a patched location with two locations out of its reach
\* below it and one within reach above it.
C27_Witness ==
    \E a, b, p, c \in 1 .. Len(locs) :
        /\ pc = "emit"
        /\ a < b /\ b < p /\ p < c
        /\ locs[p].patch
        /\ ~Reaches(b, p)
        /\ ~Reaches(a, p)
        /\ Reaches(c, p)


\* parseAction has been applied to a call action with a rule before it, a
\* symbol, a binary and these arguments.
ParsedCall(args) ==
    /\ p_pc \in {"action", "error"}
    /\ DOMAIN p_text # {}
    /\ p_text.entries # <<>>
    /\ p_text.str = ActionText("TOKEN_CALL", "", <<>>, "f", args, "bin")

\* C28: a string argument of a call action that names the CSV basename of a
\* match entry of the same rule is accepted as a CSV row-field argument of
\* that basename; a string naming no such basename is a parse error.
C28_CsvArgumentAccepted ==
    \A t \in {a \in ArgTexts : a.token = "TOKEN_STRING" /\ ~a.ptr} :
        ParsedCall(<<t>>) =>
            IF \E k \in 1 .. Len(p_text.entries) :
                   p_text.entries[k].basename = t.s
            THEN /\ ~p_act.error
                 /\ Len(p_act.action.args) = 1
                 /\ p_act.action.args[1].kind = "ARGUMENT_USER"
                 /\ p_act.action.args[1].basename = t.s
            ELSE p_act.error


\* C29: the arguments of a call action are stored in the order written; an
\* argument is flagged as a duplicate iff an earlier argument of the call
\* has the same kind, the same by-pointer flag and the same literal or
\* index value; the first argument is never flagged, and op[0] then op[1],
\* or 1 then 2, are not flagged.
C29_DuplicateIffSameArgument ==
    (p_pc = "action" /\ p_act.action.kind = "ACTION_CALL") =>
        LET stored == p_act.action.args
            written == p_text.str.args
        IN  /\ Len(stored) = Len(written)
            /\ \A k \in 1 .. Len(stored) :
                  /\ stored[k].ptr = written[k].ptr
                  /\ stored[k].kind =
                        IF written[k].token = "TOKEN_INTEGER"
                        THEN "ARGUMENT_INTEGER"
                        ELSE ArgumentOf(written[k].token)
                  /\ stored[k].duplicate <=>
                        \E j \in 1 .. (k - 1) :
                            /\ stored[j].kind = stored[k].kind
                            /\ stored[j].ptr = stored[k].ptr
                            /\ stored[j].value = stored[k].value

\* The kinds of the instruction metadata arguments, rip and integers.
NotByPointer ==
    {"ARGUMENT_ASM", "ARGUMENT_ASM_SIZE", "ARGUMENT_ASM_LEN", "ARGUMENT_ADDR",
     "ARGUMENT_STATIC_ADDR", "ARGUMENT_BASE", "ARGUMENT_BYTES",
     "ARGUMENT_BYTES_SIZE", "ARGUMENT_OFFSET", "ARGUMENT_NEXT",
     "ARGUMENT_TARGET", "ARGUMENT_TRAMPOLINE", "ARGUMENT_RANDOM",
     "ARGUMENT_RIP", "ARGUMENT_INTEGER"}

\* The kind an argument is written as.
WrittenKind(t) ==
    CASE t.token = "TOKEN_INTEGER" -> "ARGUMENT_INTEGER"
      [] t.token = "TOKEN_ASM" /\ t.suffix = "TOKEN_SIZE" ->
            "ARGUMENT_ASM_SIZE"
      [] t.token = "TOKEN_ASM" /\ t.suffix = "TOKEN_LENGTH" ->
            "ARGUMENT_ASM_LEN"
      [] OTHER -> ArgumentOf(t.token)

\* C30: a call action with an argument written with `&' whose kind is
\* instruction metadata, rip or an integer literal ends the parse with an
\* error, and no action is created from it.
C30_MetadataByPointerRejected ==
    (/\ p_pc \in {"action", "error"}
     /\ DOMAIN p_text # {}
     /\ \E k \in 1 .. Len(p_text.str.args) :
           /\ p_text.str.args[k].ptr
           /\ WrittenKind(p_text.str.args[k]) \in NotByPointer) =>
        /\ p_pc = "error"
        /\ p_act.error
        /\ p_act.action = NULL

\* C30 witness: `call f(&rax,&addr)@bin' was rejected, and
\* `call f(&rax)@bin' after the same rule is accepted.
C30_Witness ==
    /\ p_pc = "error"
    /\ ParsedCall(<<ArgText(TRUE, "TOKEN_RAX", "", <<>>, 0, ""),
                    ArgText(TRUE, "TOKEN_ADDR", "", <<>>, 0, "")>>)
    /\ p_act.error
    /\ ~parseAction(ActionText("TOKEN_CALL", "", <<>>, "f",
                               <<ArgText(TRUE, "TOKEN_RAX", "", <<>>, 0, "")>>,
                               "bin"),
                    p_text.entries,
                    [plugins |-> plugins, option_notify |-> option_notify,
                     error |-> FALSE]).error


\* The kinds of the general-purpose registers at the four widths and of
\* rflags: the kinds of the first switch that are neither instruction
\* metadata, rip, nor operand projections.
RegisterArguments ==
    {pair[2] : pair \in ArgumentTokens} \ (NotByPointer \cup OperandArguments)

\* C31: a call action whose one argument is a general-purpose register at
\* any of the four widths, rflags, or an operand projection with an index
\* in 0..7, written with `&', is accepted and the argument is recorded
\* with by-pointer = true.
C31_RegistersByPointerAccepted ==
    \A t \in {a \in ArgTexts : a.ptr} :
        (/\ ParsedCall(<<t>>)
         /\ \/ WrittenKind(t) \in RegisterArguments
            \/ /\ WrittenKind(t) \in OperandArguments
               /\ t.index # <<>>
               /\ t.index[1] \in 0 .. 7) =>
            /\ ~p_act.error
            /\ p_act.action.args[1].kind = WrittenKind(t)
            /\ p_act.action.args[1].ptr


\* The attributes written in the call action given to parseAction.
Given(attr) ==
    \E k \in 1 .. Len(p_text.str.attrs) : p_text.str.attrs[k] = attr

\* The call position attributes given.
PositionsGiven ==
    {attr \in {"TOKEN_BEFORE", "TOKEN_AFTER", "TOKEN_REPLACE",
               "TOKEN_CONDITIONAL"} : Given(attr)}

\* C32: a call action with a rule before it, well-formed but for its
\* attributes, is rejected iff both clean and naked are given or more than
\* one of before, after, replace, conditional is given; otherwise it is
\* naked iff naked was given, and its call position is the one given, or
\* before if none was.
C32_CallAttributes ==
    (/\ p_pc \in {"action", "error"}
     /\ DOMAIN p_text # {}
     /\ p_text.entries # <<>>
     /\ p_text.str.token = "TOKEN_CALL"
     /\ p_text.str.args = <<>>
     /\ p_text.str.filename # "") =>
        /\ p_act.error <=>
              \/ Given("TOKEN_CLEAN") /\ Given("TOKEN_NAKED")
              \/ Cardinality(PositionsGiven) > 1
        /\ ~p_act.error =>
              /\ p_act.action.clean <=> ~Given("TOKEN_NAKED")
              /\ p_act.action.call =
                    CASE PositionsGiven = {} -> "CALL_BEFORE"
                      [] PositionsGiven = {"TOKEN_BEFORE"} -> "CALL_BEFORE"
                      [] PositionsGiven = {"TOKEN_AFTER"} -> "CALL_AFTER"
                      [] PositionsGiven = {"TOKEN_REPLACE"} -> "CALL_REPLACE"
                      [] PositionsGiven = {"TOKEN_CONDITIONAL"} ->
                            "CALL_CONDITIONAL"

\* C32 witness: `call[naked,conditional] f@bin' was accepted as a naked
\* conditional call.
C32_Witness ==
    /\ p_pc = "action"
    /\ p_text.str.attrs = <<"TOKEN_NAKED", "TOKEN_CONDITIONAL">>
    /\ ~p_act.action.clean
    /\ p_act.action.call = "CALL_CONDITIONAL"
    /\ p_act.action.name = "call_naked_conditional_f_bin"


\* For each -A option of a list of options, the entries of the -M options
\* given since the -A option before it, in order.
RECURSIVE GroupsFrom(_, _, _)
GroupsFrom(options, k, pending) ==
    IF k > Len(options) THEN <<>>
    ELSE IF options[k].option = "M"
    THEN GroupsFrom(options, k + 1, Append(pending, options[k].entry))
    ELSE <<pending>> \o GroupsFrom(options, k + 1, <<>>)

\* The entries of the -M options given after the last -A option.
RECURSIVE TrailingFrom(_, _, _)
TrailingFrom(options, k, pending) ==
    IF k > Len(options) THEN pending
    ELSE IF options[k].option = "M"
    THEN TrailingFrom(options, k + 1, Append(pending, options[k].entry))
    ELSE TrailingFrom(options, k + 1, <<>>)

\* Every rule built holds the -M entries given since the -A before it; a -A
\* with none ended the run; no rule is without an entry; the options are
\* accepted only with no -M pending and at most MAX_ACTIONS actions.
RulesHoldTheirEntries ==
    LET groups == GroupsFrom(p_text, 1, <<>>)
        built == Len(option_actions) - p_ret
    IN  /\ built <= Len(groups)
        /\ built >= Len(groups) - 1
        /\ built < Len(groups) => p_pc = "error"
        /\ \A k \in 1 .. built :
              option_actions[p_ret + k].entries = groups[k]
        /\ \A k \in 1 .. Len(groups) :
              groups[k] = <<>> =>
                  (p_pc = "error" /\ k = Len(groups) /\ built = k - 1)
        /\ \A k \in 1 .. Len(option_actions) :
              Len(option_actions[k].entries) >= 1
        /\ p_pc = "parsed" =>
              /\ TrailingFrom(p_text, 1, <<>>) = <<>>
              /\ Len(option_actions) <= MAX_ACTIONS

\* The checks after the loop end the run with an error iff a -M option
\* follows the last -A option or more than MAX_ACTIONS actions were built.
EndChecks ==
    (p_pc = "main" /\ p_pc' # "main" /\ p_n' = p_n) =>
        (p_pc' = "error" <=>
            \/ TrailingFrom(p_text, 1, <<>>) # <<>>
            \/ Len(option_actions) > MAX_ACTIONS)

\* C33: the rule built by each -A holds exactly the -M entries given since
\* the previous -A, in order; a -A with no pending -M aborts; -M entries
\* pending after the last option abort; more than 1024 actions abort; so
\* every rule has at least one match entry.
C33_RulesGroupPendingEntries ==
    /\ []RulesHoldTheirEntries
    /\ [][EndChecks]_vars

\* C33 witness: `-M A -M B -A X' was accepted as one rule with the two
\* entries in order.
C33_Witness ==
    /\ p_pc = "parsed"
    /\ p_ret = 0
    /\ Len(option_actions) = 1
    /\ Len(option_actions[1].entries) = 2
    /\ option_actions[1].entries[1] # option_actions[1].entries[2]
    /\ option_actions[1].entries =
          <<p_text[1].entry, p_text[2].entry>>


\* An address lies in the code section as parsed.
InCodeSection(addr) ==
    addr >= p_ret.text_addr /\ addr < p_ret.text_addr + p_ret.text_size

\* C34: when the --start and --end options have been accepted, each
\* address resolved, from a hex absolute address or from a dynamic symbol,
\* lies in the code section [text_addr, text_addr + text_size), and the
\* range disassembled is a sub-range of the code section.
C34_PositionsInsideCodeSection ==
    p_pc = "ranged" =>
        /\ \A k \in 1 .. Len(p_act.start) : InCodeSection(p_act.start[k])
        /\ \A k \in 1 .. Len(p_act.end) : InCodeSection(p_act.end[k])
        /\ elf.text_addr >= p_ret.text_addr
        /\ elf.text_size >= 0
        /\ elf.text_addr + elf.text_size <= p_ret.text_addr + p_ret.text_size


\* The callbacks of a hook made to a plugin (positions in the call log).
CallsTo(hook, path) ==
    {a \in 1 .. Len(calls) : calls[a].hook = hook /\ calls[a].plugin = path}

\* C35: when the run has ended, with the emit message or with an error
\* (fatal desync, incomplete disassembly, failed re-decoding), every plugin
\* whose init callback was made and that exports fini has had its fini
\* callback made.
C35_FiniOnEveryExit ==
    pc \in {"done", "error"} =>
        \A path \in DOMAIN plugins :
            (plugins[path].finiFunc /\ CallsTo("init", path) # {}) =>
                CallsTo("fini", path) # {}


\* The index one-pass mode records for a Location: match() on its
\* instruction with the offset pass one computes for it.
OnePassIndex(loc) ==
    match(option_actions, InsnOf(loc), loc.offset,
          matchPlugins(plugins, InsnOf(loc)), 0)

\* C36: after pass two every Location has the patch flag and the action
\* index that one-pass mode records for its instruction, and every match
\* callback of pass two was given the offset pass one computes for the
\* instruction (the offset of a buffered Location).
C36_TwoPassSelectsAsOnePass ==
    (option_notify /\ pc \in {"emit", "fini", "done"}) =>
        /\ \A j \in 1 .. Len(locs) :
              /\ locs[j].patch <=> OnePassIndex(locs[j]) >= 0
              /\ locs[j].patch => locs[j].action = OnePassIndex(locs[j])
        /\ \A a \in 1 .. Len(calls) :
              calls[a].hook = "match" =>
                  \E j \in 1 .. Len(locs) : calls[a].offset = locs[j].offset


\* The instruction messages in the stream (positions).
InstructionMessages == {a \in 1 .. Len(out) : out[a].type = "instruction"}

\* C37 as stated: the instruction messages appear in the stream in strictly
\* decreasing offset order.
C37_InstructionsDecreasing ==
    \A a, b \in InstructionMessages :
        a < b => out[a].offset > out[b].offset

\* The instruction messages a step emitting the patch of locs[i] sends are
\* those of the walk down from locs[i], in decreasing offset order,
\* followed by those of the walk up from locs[i + 1], in increasing offset
\* order.
WindowDownThenUp ==
    (pc = "emit" /\ i >= 1 /\ locs[i].patch /\ pc' = "emit") =>
        LET p == elf.text_offset + locs[i].offset
            sent == {a \in (Len(out) + 1) .. Len(out') :
                        out'[a].type = "instruction"}
        IN  \A a, b \in sent :
                a < b =>
                    /\ out'[b].offset <= p => out'[a].offset > out'[b].offset
                    /\ out'[a].offset > p => out'[a].offset < out'[b].offset

\* C37 amended: patch emissions appear in strictly decreasing offset order;
\* the instruction messages sent for one patch are in decreasing offset
\* order from the patched location down, followed by those above it in
\* increasing offset order, so the instruction messages of the stream are
\* not in decreasing offset order.
C37_WindowDownThenUp ==
    /\ [](\A a, b \in 1 .. Len(out) :
            (a < b /\ IsPatchEmission(out[a]) /\ IsPatchEmission(out[b])) =>
                out[a].offset > out[b].offset)
    /\ [][WindowDownThenUp]_vars

\* C37 witness: a finished run in which the instruction message of a
\* location was sent after that of a location below it.
C37_Witness ==
    /\ pc = "done"
    /\ \E a, b \in InstructionMessages :
          a < b /\ out[a].offset < out[b].offset


\* Item k of the code section is skipped by the desync logic: it is a data
\* pseudo-instruction or one of the items a countdown consumes (without
\* --sync the countdown is (unsigned)-1 items long).
Skipped(k) ==
    \/ IsData(code[k])
    \/ InCountdown(k, IF option_sync < 0 THEN UINT_MAX ELSE option_sync)

\* The offsets under which item k would appear in a Location or callback
\* of pass one, and in a callback of pass two or a message.
TextOffsetOf(k) == code[k].address - elf.text_addr

FileOffsetOf(k) == elf.text_offset + TextOffsetOf(k)

\* C38: an item skipped by the desync logic has no Location, no instr,
\* match or patch callback, no instruction message and no patch emission;
\* and every instruction message is that of a buffered Location within
\* INT8_MAX + 2 + 15 bytes of a patched Location.
C38_SkippedItemsLeaveNoTrace ==
    /\ \A k \in {n \in 1 .. Len(code) : Skipped(n)} :
          /\ \A j \in 1 .. Len(locs) : locs[j].offset # TextOffsetOf(k)
          /\ \A a \in 1 .. Len(calls) :
                calls[a].hook \in {"instr", "match", "patch"} =>
                    calls[a].offset \notin {TextOffsetOf(k), FileOffsetOf(k)}
          /\ \A a \in 1 .. Len(out) :
                (out[a].type = "instruction" \/ IsPatchEmission(out[a])) =>
                    out[a].offset # FileOffsetOf(k)
    /\ \A a \in InstructionMessages :
          \E j \in 1 .. Len(locs), p \in Patched :
              /\ out[a].offset = elf.text_offset + locs[j].offset
              /\ InReach(locs[j], locs[p])

\* C38 witness: a finished run with --sync 1 over a section with a data
\* pseudo-instruction followed by an instruction the countdown consumed,
\* with patches and plugin callbacks for the instructions kept.
C38_Witness ==
    /\ pc = "done"
    /\ option_sync = 1
    /\ \E k \in 1 .. (Len(code) - 1) :
          /\ IsData(code[k])
          /\ ~IsData(code[k + 1])
          /\ Skipped(k + 1)
    /\ Patched # {}
    /\ \E a \in 1 .. Len(calls) : calls[a].hook = "match"


\* The indices an operand attribute can be written with.
OperandIndices == 0 .. 7

\* kind.size without index and kind[i].size, as makeMatchValue computes them.
KindSize(I, kind) == makeMatchValue(kind, -1, "FIELD_SIZE", I, 0, 0, 0)

KindAt(I, kind, n) == makeMatchValue(kind, n, "FIELD_SIZE", I, 0, 0, 0)

\* The operand kind[n] selects (0 for none).
KindOperand(I, kind, n) ==
    getOperand(I, n, MatchType(kind), MatchAccess(kind))

\* The rule under evaluation has been evaluated and its first attribute,
\* the one matchAction always evaluates, is an operand attribute.
OperandAttributeEvaluated ==
    /\ m_pc = "return"
    /\ m_action.entries[1].match \in OperandKinds

\* C39: whenever an operand attribute has been evaluated on an instruction,
\* then for that instruction and every operand kind kind[i] resolves to an
\* operand iff 0 <= i < kind.size, and the operands selected by increasing i
\* are distinct, pass the kind's filter and come in instruction operand
\* order.
C39_SelectionAgreesWithCount ==
    OperandAttributeEvaluated =>
        \A kind \in OperandKinds :
            LET size == KindSize(m_I, kind)
            IN  /\ size.defined
                /\ size.x \in 0 .. Len(m_I.operands)
                /\ \A n \in OperandIndices :
                      LET k == KindOperand(m_I, kind, n)
                      IN  /\ KindAt(m_I, kind, n).defined <=> n < size.x
                          /\ k # 0 <=> n < size.x
                          /\ k # 0 =>
                                OperandPasses(m_I.operands[k],
                                              MatchType(kind),
                                              MatchAccess(kind))
                          /\ (n > 0 /\ k # 0) =>
                                KindOperand(m_I, kind, n - 1) \in 1 .. (k - 1)

\* C39 witness: a rule whose first attribute is an indexed operand attribute
\* has been evaluated on an instruction of which that kind selects some
\* operands but not all, and the index is past the kind's count.
C39_Witness ==
    /\ OperandAttributeEvaluated
    /\ LET entry == m_action.entries[1]
       IN  /\ entry.idx >= 0
           /\ KindSize(m_I, entry.match).x > 0
           /\ KindSize(m_I, entry.match).x < Len(m_I.operands)
           /\ entry.idx >= KindSize(m_I, entry.match).x

\* What the action field holds after Location(.., .., false, -1).
TruncatedNoIndex == Location(0, 0, FALSE, -1).action

\* Every buffered Location has the size of the instruction decoded at its
\* offset, and a patched one an action field that indexes the rule list.
LocationsKeepSizeAndIndex ==
    /\ Len(option_actions) <= MAX_ACTIONS
    /\ \A j \in 1 .. Len(locs) :
          /\ DecodeAt(elf.text_addr + locs[j].offset) # 0
          /\ locs[j].size = InsnOf(locs[j]).size
          /\ locs[j].patch => locs[j].action + 1 \in DOMAIN option_actions
          /\ ~locs[j].patch => locs[j].action = TruncatedNoIndex

\* Every index a list of up to MAX_ACTIONS rules can yield, and every
\* instruction size, is read back from a Location as it was stored.
PackingKeepsAcceptedValues ==
    /\ \A n \in 0 .. (MAX_ACTIONS - 1) : Location(0, 1, TRUE, n).action = n
    /\ \A n \in 1 .. 15 : Location(0, n, FALSE, -1).size = n

\* A step of the disassembly loop, of pass two or of the emission loop
\* stores the size and the index it was given, stores the truncated -1 only
\* with patch = false, and emits nothing for an unpatched Location.
LocationStep ==
    /\ (pc = "disasm" /\ Len(locs') = Len(locs) + 1) =>
          LET loc == locs'[Len(locs')]
          IN  /\ loc.offset = code[ip].address - elf.text_addr
              /\ loc.size = code[ip].size
              /\ loc.patch <=> idx' >= 0
              /\ idx' >= 0 => loc.action = idx'
              /\ idx' < 0 => (idx' = -1 /\ loc.action = TruncatedNoIndex)
    /\ (pc = "pass2" /\ locs' # locs) =>
          /\ idx' >= 0
          /\ locs' = [locs EXCEPT ![i] =
                        [offset |-> locs[i].offset,
                         size |-> InsnOf(locs[i]).size, emitted |-> FALSE,
                         patch |-> TRUE, action |-> idx']]
    /\ (pc = "emit" /\ i >= 1 /\ i' = i - 1 /\ ~locs[i].patch) =>
          /\ out' = out
          /\ calls' = calls
          /\ locs' = locs

\* C40: every buffered Location has the decoded instruction's size; a
\* patched Location's action field is the index rule selection returned and
\* indexes the rule list, which has at most MAX_ACTIONS rules; the truncated
\* -1 is stored only with patch = false and is never used as an index.
C40_LocationLosesNothing ==
    /\ [](LocationsKeepSizeAndIndex
          /\ (pc = "binary" => PackingKeepsAcceptedValues))
    /\ [][LocationStep]_vars

\* C40 witness: a finished run that buffered an instruction of the largest
\* size, patched a Location with a rule other than the first, and left a
\* Location unpatched.
C40_Witness ==
    /\ pc = "done"
    /\ \E j \in 1 .. Len(locs) : locs[j].size = 15
    /\ \E j \in Patched : locs[j].action > 0 /\ PatchAt(out, locs[j]) # {}
    /\ \E j \in 1 .. Len(locs) :
          ~locs[j].patch /\ locs[j].action = TruncatedNoIndex

====
